---- MODULE Spec2Model ----
(***************************************************************************)
(* The connection engine of lifx-client (lifx-client/src/connection.rs)    *)
(* and the client facade that feeds it (lifx-client/src/client.rs).        *)
(*                                                                         *)
(* The engine is the Future `Connection`.  One poll of it drains the       *)
(* socket (poll_incoming + handle_message per datagram), then runs         *)
(* poll_outgoing (a loop over the request queue) and poll_flush, and       *)
(* returns Poll::Pending.  The engine's position inside poll is `pc`.      *)
(* Callers run in parallel with the engine and talk to it only through     *)
(* the unbounded request queue and their one-shot sinks.                   *)
(***************************************************************************)
EXTENDS Naturals, Sequences, FiniteSets

VARIABLES
    sequence_number,     \* Connection.sequence_number : u8
    pending_responses,   \* Connection.pending_responses : HashMap<u8, Response>
    pending_request,     \* Connection.pending_request : Option<Request>, as a sequence of length <= 1
    requests,            \* the mpsc queue between Client.requests and Connection.requests
    discovery,           \* every DeviceAddress published on Connection.discovery, in order
    inbox,               \* what Connection.socket yields next: datagrams received, not yet polled
    pc,                  \* the engine's position: "running" (inside poll), "parked" or "done"
    outcome,             \* output of the Connection future: "Pending" until it completes
    last_outgoing,       \* the return path the last poll_outgoing took
    last_incoming,       \* the last item poll_incoming got from the socket, and whether
                         \* handle_message found a pending entry for it
    dropped,             \* TRUE once the Connection value has been dropped
    client_alive,        \* TRUE while the application still holds its Client handle
    called,              \* the callers that have made their call
    results,             \* what each caller that is no longer waiting got, by caller id
    sent,                \* packets handed to the socket by start_send, in order
    narrived,            \* number of datagrams received so far
    codec,               \* the wire codec at work on one value: input, bytes, output
    subscriptions,       \* the broadcast::Receivers of the discovery channel that are read:
                         \* those send_discovery returned and those of the clones of the Client
    transport            \* the Transport of the earlier send path: its fields, what it
                         \* handed to the socket and what its last call returned

vars == << sequence_number, pending_responses, pending_request, requests, discovery,
           inbox, pc, outcome, last_outgoing, last_incoming, dropped, client_alive,
           called, results, sent, narrived, codec, subscriptions, transport >>

-----------------------------------------------------------------------------
(* Bounds of the model. *)

Burst == 255         \* callers of the burst of get_label calls made back to back
MaxArrived == 2      \* datagrams received in one behaviour
MaxCalls == 258      \* calls made on the Transport in one behaviour
Varied == 2          \* the first calls, which are of any kind and may find the socket
                     \* failing; later ones are send_with_response for a reply
MaxReceived == 2     \* datagrams the Transport receives in one behaviour

(* Program constants. *)

U8_MAX == 255        \* std::u8::MAX, the last sequence number
Source == 1234       \* the source identifier the engine was constructed with
DefaultPort == 56700 \* the LIFX port, DeviceAddress::all

OtherSource == Source + 1

Min(S) == CHOOSE x \in S : \A y \in S : x <= y

-----------------------------------------------------------------------------
(* Addresses and messages. *)

AllTarget == [kind |-> "All", mac |-> "00:00:00:00:00:00"]
BulbTarget == [kind |-> "Targeted", mac |-> "aa:bb:cc:dd:ee:ff"]

\* DeviceAddress::all(): the broadcast address with DeviceTarget::All
DeviceAddressAll == [ip |-> "255.255.255.255", port |-> DefaultPort, target |-> AllTarget]

BulbAddress == [ip |-> "192.0.2.5", port |-> DefaultPort, target |-> BulbTarget]

\* DeviceAddress::new(SocketAddr::new(ip, port), target)
DeviceAddressNew(ip, port, target) == [ip |-> ip, port |-> port, target |-> target]

\* A Message value: its type and, where the type has them, its fields.
Msg(type, service, port, label) ==
    [type |-> type, service |-> service, port |-> port, label |-> label]

GetService == Msg("GetService", "-", 0, "")
GetLabel == Msg("GetLabel", "-", 0, "")
SetColor == Msg("SetColor", "-", 0, "")
StateServiceUdp == Msg("StateService", "Udp", DefaultPort, "")
StateServiceUnknown == Msg("StateService", "Unknown", DefaultPort, "")
StateLabel == Msg("StateLabel", "-", 0, "Kitchen")
Acknowledgement == Msg("Acknowledgement", "-", 0, "")
Get == Msg("Get", "-", 0, "")
LightState == Msg("State", "-", 0, "Kitchen")

\* Request::new(address, message, response); `response` is "None", "Reply" or
\* "Acknowledgement", and the sink's receiving end belongs to caller `id`.
RequestNew(id, address, message, response) ==
    [id |-> id, address |-> address, message |-> message, response |-> response]

\* What the socket stream yields for one datagram: a decoded InboundMessage
\* (fault = "none") or the error the read or the decoding ended with.
Inbound(fault, source, sequence, message) ==
    [fault |-> fault, addr |-> [ip |-> BulbAddress.ip, port |-> DefaultPort],
     source |-> source, target |-> BulbTarget, sequence |-> sequence, message |-> message]

-----------------------------------------------------------------------------
(* The engine: sequence allocation. *)

NoSequence == << >>
EmptyTable == [seq \in {} |-> [kind |-> "Reply", id |-> 0]]

\* An insert that stores nothing.
InsertNothing(table, seq, sink) == table

\* HashMap::insert: the entry under `seq` becomes `sink`, whatever was there.
Insert(table, seq, sink) ==
    [s \in DOMAIN table \cup {seq} |-> IF s = seq THEN sink ELSE table[s]]

\* A table that keeps the entry it is asked to remove.
RemoveNothing(table, seq) == table

\* HashMap::remove
Remove(table, seq) == [s \in DOMAIN table \ {seq} |-> table[s]]

\* An increment that stops at the last sequence number.
SaturatingInc(seq) == IF seq = U8_MAX THEN U8_MAX ELSE seq + 1

\* u8::wrapping_add(1)
WrappingInc(seq) == (seq + 1) % (U8_MAX + 1)

\* A sequence allocation that takes the counter's value without consulting
\* the table.
next_sequence_unchecked(sn, table, has_response) ==
    [seq |-> << sn >>, sequence_number |-> WrappingInc(sn)]

\* A sequence allocation that always searches from 0, whatever the counter.
next_sequence_from_zero(sn, table, has_response) ==
    IF has_response
    THEN IF \E seq \in 0..U8_MAX : seq \notin DOMAIN table
         THEN LET first == Min({seq \in 0..U8_MAX : seq \notin DOMAIN table})
              IN  [seq |-> << first >>, sequence_number |-> WrappingInc(first)]
         ELSE [seq |-> NoSequence, sequence_number |-> sn]
    ELSE [seq |-> << sn >>, sequence_number |-> WrappingInc(sn)]

\* Connection::next_sequence.  The result is the Option<u8> returned, as a
\* sequence of length <= 1, and the value sequence_number has afterwards.
next_sequence(sn, table, has_response) ==
    IF has_response
    THEN \* for seq in sequence_number..=u8::MAX: the first one without an entry
         IF \E seq \in sn..U8_MAX : seq \notin DOMAIN table
         THEN LET first == CHOOSE seq \in sn..U8_MAX :
                              /\ seq \notin DOMAIN table
                              /\ \A before \in sn..(seq - 1) : before \in DOMAIN table
              IN  [seq |-> << first >>, sequence_number |-> WrappingInc(first)]
         ELSE [seq |-> NoSequence, sequence_number |-> sn]
    ELSE [seq |-> << sn >>, sequence_number |-> WrappingInc(sn)]

-----------------------------------------------------------------------------
(* The engine: outbound. *)

\* The callers.  Each calls once, through its own clone of the Client handle:
\* the callers 1..Burst all call get_label at once, two more call get_label
\* one by one, one calls set_light_color and one send_discovery.
Crowd == 1..Burst
LabelCallers == {Burst + 1, Burst + 2}
ColorCaller == Burst + 3
DiscoveryCaller == Burst + 4
StateCaller == Burst + 5

\* The clones of the Client handle that are made and dropped on their own.
CloneIds == {Burst + 6, Burst + 7}

-----------------------------------------------------------------------------
(* The discovery channel: a tokio::sync::broadcast channel whose only sender in
   use is the engine's.  `discovery` is the log of what was sent on it; the
   channel holds the last DiscoveryBacklog events of the log. *)

DiscoveryBacklog == 10   \* broadcast::channel(10)

NoSubscriptions ==
    [c \in {} |-> [handle |-> FALSE, since |-> 1, next |-> 1, got |-> << >>, missed |-> 0]]

\* Sender::subscribe: a receiver that starts behind the events sent so far.
\* `handle` tells the `discovery` field of a Client from a receiver that
\* send_discovery returned.
subscribe(log, handle) ==
    [handle |-> handle, since |-> Len(log) + 1, next |-> Len(log) + 1,
     got |-> << >>, missed |-> 0]

\* The position in the log of the oldest event the channel still holds.
Oldest(log) ==
    IF Len(log) > DiscoveryBacklog THEN Len(log) - DiscoveryBacklog + 1 ELSE 1

\* A receiver that, having lagged, goes on from the newest event.
recv_from_newest(sub, log) ==
    IF sub.next < Oldest(log)
    THEN [sub EXCEPT !.missed = @ + (Len(log) - sub.next), !.next = Len(log)]
    ELSE [sub EXCEPT !.got = Append(@, log[sub.next]), !.next = @ + 1]

\* Receiver::recv when the log has an event at or after `next`: the event, or
\* Err(Lagged(n)) if the channel no longer holds it, after which the receiver
\* goes on from the oldest event held.
recv(sub, log) ==
    IF sub.next < Oldest(log)
    THEN [sub EXCEPT !.missed = @ + (Oldest(log) - sub.next), !.next = Oldest(log)]
    ELSE [sub EXCEPT !.got = Append(@, log[sub.next]), !.next = @ + 1]

\* The clones of the Client handle that are alive.
Clones == {c \in DOMAIN subscriptions : subscriptions[c].handle}

\* Callers whose future is still awaiting its one-shot receiver.  Each of them
\* holds the Client handle it called through (the methods take &mut self).
Waiting == (called \ {DiscoveryCaller}) \ DOMAIN results

\* Senders of the request queue that forget the clones.
SendersWithoutClones == client_alive \/ Waiting # {}

\* Some mpsc::UnboundedSender of the request queue is still alive: the
\* Client's, a clone's or that of a handle a waiting caller called through.
SendersAlive == client_alive \/ Waiting # {} \/ Clones # {}

\* A poll_request that serves the queue before the deferred request.
poll_request_queue_first(e) ==
    IF e.requests # << >>
    THEN [poll |-> "Ready", request |-> << Head(e.requests) >>,
          e |-> [e EXCEPT !.requests = Tail(e.requests)]]
    ELSE IF e.pending_request # << >>
    THEN [poll |-> "Ready", request |-> e.pending_request,
          e |-> [e EXCEPT !.pending_request = << >>]]
    ELSE [poll |-> "Pending", request |-> << >>, e |-> e]

\* A poll_request that lets a fire-and-forget request at the head of the
\* queue pass the deferred request.
poll_request_forgotten_first(e) ==
    IF e.pending_request # << >> /\ e.requests # << >> /\ Head(e.requests).response = "None"
    THEN [poll |-> "Ready", request |-> << Head(e.requests) >>,
          e |-> [e EXCEPT !.requests = Tail(e.requests)]]
    ELSE IF e.pending_request # << >>
    THEN [poll |-> "Ready", request |-> e.pending_request,
          e |-> [e EXCEPT !.pending_request = << >>]]
    ELSE IF e.requests # << >>
    THEN [poll |-> "Ready", request |-> << Head(e.requests) >>,
          e |-> [e EXCEPT !.requests = Tail(e.requests)]]
    ELSE IF SendersAlive
    THEN [poll |-> "Pending", request |-> << >>, e |-> e]
    ELSE [poll |-> "Closed", request |-> << >>, e |-> e]

\* Connection::poll_request on engine state e: the deferred request first,
\* then the queue; Ready(None) once the queue is empty and every sender is gone.
poll_request(e) ==
    IF e.pending_request # << >>
    THEN [poll |-> "Ready", request |-> e.pending_request,
          e |-> [e EXCEPT !.pending_request = << >>]]
    ELSE IF e.requests # << >>
    THEN [poll |-> "Ready", request |-> << Head(e.requests) >>,
          e |-> [e EXCEPT !.requests = Tail(e.requests)]]
    ELSE IF SendersAlive
    THEN [poll |-> "Pending", request |-> << >>, e |-> e]
    ELSE [poll |-> "Closed", request |-> << >>, e |-> e]

\* A packet whose two flags have changed places.
PacketFlagsSwapped(request, sequence) ==
    [id |-> request.id,
     source |-> Source,
     target |-> request.address.target,
     sequence |-> sequence,
     response_required |-> (request.response = "Acknowledgement"),
     acknowledgement_required |-> (request.response = "Reply"),
     message |-> request.message,
     to |-> [ip |-> request.address.ip, port |-> request.address.port]]

\* The packet start_send is given for `request` under `sequence`:
\* PacketOptions, the message and the destination.
Packet(request, sequence) ==
    [id |-> request.id,
     source |-> Source,
     target |-> request.address.target,
     sequence |-> sequence,
     response_required |-> (request.response = "Reply"),
     acknowledgement_required |-> (request.response = "Acknowledgement"),
     message |-> request.message,
     to |-> [ip |-> request.address.ip, port |-> request.address.port]]

\* A deferral that loses the request.
discard(e, request) == [e EXCEPT !.ret = "deferred"]

\* poll_outgoing's None arm: the request goes to the deferred slot and the
\* loop returns.
defer(e, request) == [e EXCEPT !.pending_request = << request >>, !.ret = "deferred"]

\* One iteration of the loop of poll_outgoing that obtained `request`.
\* ret = "continue" means the loop goes round again.
send_request(e, request) ==
    LET ns == next_sequence(e.sequence_number, e.pending_responses,
                            request.response # "None")
    IN  IF ns.seq = NoSequence
        THEN defer(e, request)
        ELSE LET sequence == ns.seq[1]
                 sink == [kind |-> request.response, id |-> request.id]
                 e1 == [e EXCEPT !.sequence_number = ns.sequence_number]
             IN  IF request.response = "None"
                 THEN [e1 EXCEPT !.sent = Append(@, Packet(request, sequence)),
                                 !.ret = "continue"]
                 ELSE IF sequence \in DOMAIN e.pending_responses
                 THEN \* the assertion of poll_outgoing fails, after the insert
                      [e1 EXCEPT !.pending_responses = Insert(@, sequence, sink),
                                 !.ret = "assertion"]
                 ELSE [e1 EXCEPT !.pending_responses = Insert(@, sequence, sink),
                                 !.sent = Append(@, Packet(request, sequence)),
                                 !.ret = "continue"]

\* The body of the loop of poll_outgoing, on engine state e; a state the loop
\* has returned from (ret # "continue") is left as it is.
outgoing_iteration(e) ==
    IF e.ret # "continue" THEN e
    ELSE IF e.sock = "failed" THEN [e EXCEPT !.ret = "socket_error"]
    ELSE IF e.sock = "pending" THEN [e EXCEPT !.ret = "not_writable"]
    ELSE LET r == poll_request(e)
         IN  IF r.poll = "Pending" THEN [e EXCEPT !.ret = "queue_empty"]
             ELSE IF r.poll = "Closed" THEN [e EXCEPT !.ret = "queue_closed"]
             ELSE send_request(r.e, r.request[1])

\* Up to n iterations of the loop, one after the other, until it returns.
RECURSIVE Iterate(_, _)
Iterate(e, n) ==
    IF n = 0 THEN e
    ELSE IF n = 1 THEN outgoing_iteration(e)
    ELSE LET half == Iterate(e, n \div 2)
         IN  IF half.ret = "continue" THEN Iterate(half, n - (n \div 2)) ELSE half

\* Connection::poll_outgoing: the loop runs until it returns, which it does
\* after at most one iteration per request it can obtain, and one more.
poll_outgoing(e) == Iterate(e, Len(e.requests) + Len(e.pending_request) + 1)

-----------------------------------------------------------------------------
(* The engine: inbound. *)

\* A conversion that stops at u16::MAX.
AsU16Saturating(n) == IF n > 65535 THEN 65535 ELSE n

\* `as u16`
AsU16(n) == n % 65536

\* A send that reaches the caller's result whether or not the caller still
\* holds the receiving end.
CompleteAlways(rs, id, state, reply) ==
    [c \in DOMAIN rs \cup {id} |->
        IF c = id THEN [state |-> state, reply |-> reply] ELSE rs[c]]

\* oneshot::Sender::send and the caller's rx.await: the value reaches the
\* caller unless the caller has dropped the receiving end.
Complete(rs, id, state, reply) ==
    IF id \in DOMAIN rs THEN rs
    ELSE [c \in DOMAIN rs \cup {id} |->
             IF c = id THEN [state |-> state, reply |-> reply] ELSE rs[c]]

\* A source check that lets every packet through.
AnySource(m) == TRUE

\* handle_message's source check: packets of other clients are ignored.
SourceMatches(m) == m.source = Source

\* A discovery filter that takes every StateService for an advertisement.
AdvertisesAnything(m) == m.message.type = "StateService"

\* handle_message's None arm: only a StateService for Service::Udp advertises
\* a device.
AdvertisesUdp(m) == m.message.type = "StateService" /\ m.message.service = "Udp"

\* Connection::handle_message on the decoded message m: the values the
\* engine's fields, the callers and the future's output have afterwards.
handle_message(m) ==
    LET same == [pending_responses |-> pending_responses, results |-> results,
                 discovery |-> discovery, outcome |-> outcome, matched |-> FALSE]
    IN  IF ~SourceMatches(m) THEN same
        ELSE IF m.sequence \in DOMAIN pending_responses
        THEN LET response == pending_responses[m.sequence]
                 removed == [same EXCEPT !.pending_responses = Remove(@, m.sequence),
                                         !.matched = TRUE]
             IN  IF response.kind = "Reply"
                 THEN [removed EXCEPT
                          !.results = Complete(@, response.id, "returned", << m >>)]
                 ELSE \* todo!("Handle acknowledgements"): the task panics and the
                      \* sink taken out of the table is dropped while unwinding
                      [removed EXCEPT
                          !.results = Complete(@, response.id, "ConnectionClosed", << >>),
                          !.outcome = "panicked"]
        ELSE IF AdvertisesUdp(m)
        THEN [same EXCEPT !.discovery =
                 Append(@, DeviceAddressNew(m.addr.ip, AsU16(m.message.port), m.target))]
        ELSE same

\* A drop that closes the sinks of the pending-response table only.
drop_table_sinks(rs) ==
    LET owned == {pending_responses[s].id : s \in DOMAIN pending_responses}
        closed == (owned \cap Waiting) \ DOMAIN rs
    IN  [c \in DOMAIN rs \cup closed |->
            IF c \in DOMAIN rs THEN rs[c]
            ELSE [state |-> "ConnectionClosed", reply |-> << >>]]

\* Dropping the Connection value drops every sink it owns: those of the
\* pending-response table, of the deferred request and of the queued requests.
drop_sinks(rs) ==
    LET owned == {pending_responses[s].id : s \in DOMAIN pending_responses}
                 \cup {pending_request[i].id : i \in DOMAIN pending_request}
                 \cup {requests[i].id : i \in DOMAIN requests}
        closed == (owned \cap Waiting) \ DOMAIN rs
    IN  [c \in DOMAIN rs \cup closed |->
            IF c \in DOMAIN rs THEN rs[c]
            ELSE [state |-> "ConnectionClosed", reply |-> << >>]]

-----------------------------------------------------------------------------
(* The client facade. *)

\* The executor runs one poll of the Connection to its end; what callers and
\* the network do is placed before or after it.
EngineIdle == pc \in {"parked", "done"}

NoResults == [c \in {} |-> [state |-> "returned", reply |-> << >>]]

\* A request queue that accepts requests whatever became of its receiver.
AlwaysOpen == TRUE

\* UnboundedSender::send succeeds as long as the receiver of the queue, which
\* the Connection owns, has not been dropped.
ReceiverAlive == ~dropped

\* Client::send by the callers `ids`, one after the other: their requests are
\* queued, or refused once the receiver of the queue is gone.
send(ids, address, message, response) ==
    /\ EngineIdle
    /\ client_alive \/ Clones # {}
    /\ ids # {}
    /\ ids \cap called = {}
    /\ called' = called \cup ids
    /\ requests' =
          IF ~ReceiverAlive THEN requests
          ELSE requests \o
               [i \in 1..Cardinality(ids) |->
                   RequestNew(Min(ids) + i - 1, address, message, response)]
    /\ results' =
          IF ~ReceiverAlive
          THEN [c \in DOMAIN results \cup ids |->
                   IF c \in ids THEN [state |-> "ConnectionClosed", reply |-> << >>]
                   ELSE results[c]]
          ELSE IF response = "None"
          THEN \* send_async returns Ok(()) at once, without awaiting anything
               [c \in DOMAIN results \cup ids |->
                   IF c \in ids THEN [state |-> "Ok", reply |-> << >>]
                   ELSE results[c]]
          ELSE results
    /\ UNCHANGED << codec, transport, sequence_number, pending_responses, pending_request, discovery,
                    inbox, pc, outcome, last_outgoing, last_incoming, dropped, client_alive, sent,
                    narrived >>

\* Client::send_async
send_async(ids, address, message) == send(ids, address, message, "None")

\* Client::send_with_response
send_with_response(ids, address, message) ==
    send(ids, address, message, "Reply") /\ UNCHANGED subscriptions

\* Client::send_with_acknowledgement
send_with_acknowledgement(ids, address, message) ==
    send(ids, address, message, "Acknowledgement") /\ UNCHANGED subscriptions

\* Client::send_discovery: send_async, and unless `?` returns its error, a
\* new subscription for the caller.
send_discovery(ids) ==
    /\ send_async(ids, DeviceAddressAll, GetService)
    /\ subscriptions' =
          IF ~ReceiverAlive THEN subscriptions
          ELSE [c \in DOMAIN subscriptions \cup ids |->
                   IF c \in ids THEN subscribe(discovery, FALSE) ELSE subscriptions[c]]

\* Client::send_discovery as two steps of the caller's thread, between which
\* the engine task may run on another thread: first self.send_async(..)?,
send_discovery_enqueue(ids) ==
    /\ send_async(ids, DeviceAddressAll, GetService)
    /\ UNCHANGED subscriptions

\* then, if send_async returned Ok, self.discovery_tx.subscribe().
send_discovery_subscribe(c) ==
    /\ c \in DOMAIN results
    /\ results[c].state = "Ok"
    /\ c \notin DOMAIN subscriptions
    /\ subscriptions' = [d \in DOMAIN subscriptions \cup {c} |->
                            IF d = c THEN subscribe(discovery, FALSE) ELSE subscriptions[d]]
    /\ UNCHANGED << codec, transport, sequence_number, pending_responses, pending_request, requests,
                    discovery, inbox, pc, outcome, last_outgoing, last_incoming, dropped,
                    client_alive, called, results, sent, narrived >>

\* Client::get_label
get_label(ids, address) == send_with_response(ids, address, GetLabel)

\* Client::get_light_state
get_light_state(ids, address) == send_with_response(ids, address, Get)

\* What a helper returns: Ok(value), or Err(error) where UnexpectedMessage
\* carries the message type of the reply.
Ok(value) == [ok |-> TRUE, value |-> << value >>, error |-> "-", type |-> "-"]
Err(error, type) == [ok |-> FALSE, value |-> << >>, error |-> error, type |-> type]

\* A helper that takes the label out of whatever reply it is given.
label_of_any_reply(r) ==
    IF r.state = "returned" THEN Ok(r.reply[1].message.label)
    ELSE Err(r.state, "-")

\* Client::get_label, after send_with_response has returned r: `?` passes the
\* error on, and the match takes the label of a StateLabel only.
get_label_output(r) ==
    IF r.state # "returned" THEN Err(r.state, "-")
    ELSE IF r.reply[1].message.type = "StateLabel"
    THEN Ok(r.reply[1].message.label)
    ELSE Err("UnexpectedMessage", r.reply[1].message.type)

\* Client::get_light_state, after send_with_response has returned r.
get_light_state_output(r) ==
    IF r.state # "returned" THEN Err(r.state, "-")
    ELSE IF r.reply[1].message.type = "State"
    THEN Ok(r.reply[1].message)
    ELSE Err("UnexpectedMessage", r.reply[1].message.type)

\* Client::set_light_color
set_light_color(ids, address) == send_with_acknowledgement(ids, address, SetColor)

\* The application drops its Client handle.
ClientDrop ==
    /\ EngineIdle
    /\ client_alive
    /\ client_alive' = FALSE
    /\ UNCHANGED << codec, transport, subscriptions, sequence_number, pending_responses, pending_request, requests,
                    discovery, inbox, pc, outcome, last_outgoing, last_incoming, dropped, called,
                    results, sent, narrived >>

\* A cancellation that also takes the caller's sink out of the table.
CallerCancelFreeing(id) ==
    /\ EngineIdle
    /\ id \in Waiting
    /\ results' = Complete(results, id, "cancelled", << >>)
    /\ pending_responses' =
          [seq \in {q \in DOMAIN pending_responses : pending_responses[q].id # id} |->
              pending_responses[seq]]
    /\ UNCHANGED << codec, transport, subscriptions, sequence_number, pending_request, requests,
                    discovery, inbox, pc, outcome, last_outgoing, last_incoming, dropped, client_alive,
                    called, sent, narrived >>

\* A caller drops the future returned by send_with_response or
\* send_with_acknowledgement, and with it the receiving end of its sink.
CallerCancel(id) ==
    /\ EngineIdle
    /\ id \in Waiting
    /\ results' = Complete(results, id, "cancelled", << >>)
    /\ UNCHANGED << codec, transport, subscriptions, sequence_number, pending_responses, pending_request, requests,
                    discovery, inbox, pc, outcome, last_outgoing, last_incoming, dropped, client_alive,
                    called, sent, narrived >>

\* Client::clone, of any handle that is alive: the clone has the request
\* sender and the broadcast sender of the original and a receiver of its own.
CloneClient(c) ==
    /\ EngineIdle
    /\ client_alive \/ Clones # {}
    /\ c \notin DOMAIN subscriptions
    /\ subscriptions' = [d \in DOMAIN subscriptions \cup {c} |->
                            IF d = c THEN subscribe(discovery, TRUE) ELSE subscriptions[d]]
    /\ UNCHANGED << codec, transport, sequence_number, pending_responses, pending_request, requests,
                    discovery, inbox, pc, outcome, last_outgoing, last_incoming, dropped,
                    client_alive, called, results, sent, narrived >>

\* A clone of the Client is dropped.
DropClone(c) ==
    /\ EngineIdle
    /\ c \in Clones
    /\ subscriptions' = [d \in DOMAIN subscriptions \ {c} |-> subscriptions[d]]
    /\ UNCHANGED << codec, transport, sequence_number, pending_responses, pending_request, requests,
                    discovery, inbox, pc, outcome, last_outgoing, last_incoming, dropped,
                    client_alive, called, results, sent, narrived >>

\* The holder of subscription c receives from it; with nothing to receive it
\* keeps waiting.
Recv(c) ==
    /\ c \in DOMAIN subscriptions
    /\ subscriptions[c].next <= Len(discovery)
    /\ subscriptions' = [subscriptions EXCEPT ![c] = recv(@, discovery)]
    /\ UNCHANGED << codec, transport, sequence_number, pending_responses, pending_request, requests,
                    discovery, inbox, pc, outcome, last_outgoing, last_incoming, dropped,
                    client_alive, called, results, sent, narrived >>

\* The callers that may give up waiting.
Cancellers == {Burst + 1}

-----------------------------------------------------------------------------
(* The socket. *)

Faults == {"oversize", "unsupported", "eof", "io_error"}

Datagrams ==
    {Inbound("none", Source, 0, msg) : msg \in {StateLabel, StateServiceUdp, Acknowledgement}}
    \cup {Inbound("none", OtherSource, 0, StateServiceUdp),
          Inbound("none", OtherSource, 1, StateLabel)}
    \cup {Inbound(f, Source, 0, GetService) : f \in Faults}

\* A datagram arrives, or the read side of the socket ends or fails.
Receive(d) ==
    /\ pc = "parked"
    /\ narrived < MaxArrived
    /\ narrived' = narrived + 1
    /\ inbox' = Append(inbox, d)
    /\ UNCHANGED << codec, transport, subscriptions, sequence_number, pending_responses, pending_request, requests,
                    discovery, pc, outcome, last_outgoing, last_incoming, dropped, client_alive,
                    called, results, sent >>

-----------------------------------------------------------------------------
(* The engine's steps. *)

\* Connection::poll_incoming on the item the socket stream yields.
poll_incoming(item) ==
    CASE item.fault = "none" -> "Ok"
      [] item.fault = "eof" -> "Err(Network(UnexpectedEof))"
      [] item.fault = "io_error" -> "Err(Network(Io))"
      [] item.fault = "oversize" -> "Err(Network(InvalidData))"
      [] OTHER -> "Err(Protocol)"

\* A waker the last poll registered has fired: the socket is readable, it was
\* not writable and is again, or poll_recv was pending and the queue has a
\* request or has lost its last sender.
Woken ==
    \/ inbox # << >>
    \/ last_outgoing = "not_writable"
    \/ last_outgoing = "queue_empty" /\ (requests # << >> \/ ~SendersAlive)

\* The executor polls the Connection future again.
Wake ==
    /\ pc = "parked"
    /\ Woken
    /\ pc' = "running"
    /\ UNCHANGED << codec, transport, subscriptions, sequence_number, pending_responses, pending_request, requests,
                    discovery, inbox, outcome, last_outgoing, last_incoming, dropped,
                    client_alive, called, results, sent, narrived >>

\* poll: poll_incoming returns Ready(Err), which `?` returns from poll.
IncomingError ==
    /\ pc = "running"
    /\ inbox # << >>
    /\ poll_incoming(Head(inbox)) # "Ok"
    /\ inbox' = Tail(inbox)
    /\ outcome' = poll_incoming(Head(inbox))
    /\ last_incoming' = << [item |-> Head(inbox), matched |-> FALSE] >>
    /\ pc' = "done"
    /\ UNCHANGED << codec, transport, subscriptions, sequence_number, pending_responses, pending_request, requests,
                    discovery, last_outgoing, dropped, client_alive, called, results,
                    sent, narrived >>

\* poll: poll_incoming returns Ready(Ok(msg)) and handle_message(msg) runs.
IncomingMessage ==
    /\ pc = "running"
    /\ inbox # << >>
    /\ poll_incoming(Head(inbox)) = "Ok"
    /\ LET h == handle_message(Head(inbox))
       IN  /\ pending_responses' = h.pending_responses
           /\ results' = h.results
           /\ discovery' = h.discovery
           /\ outcome' = h.outcome
           /\ last_incoming' = << [item |-> Head(inbox), matched |-> h.matched] >>
           /\ pc' = IF h.outcome = "Pending" THEN "running" ELSE "done"
    /\ inbox' = Tail(inbox)
    /\ UNCHANGED << codec, transport, subscriptions, sequence_number, pending_request, requests, last_outgoing,
                    dropped, client_alive, called, sent, narrived >>

\* poll: poll_incoming returns Pending; then poll_outgoing, poll_flush and
\* Poll::Pending.  `writable` is what the socket answers poll_ready.
Outgoing(writable) ==
    /\ pc = "running"
    /\ inbox = << >>
    /\ LET e == poll_outgoing([sequence_number |-> sequence_number,
                               pending_responses |-> pending_responses,
                               pending_request |-> pending_request,
                               requests |-> requests,
                               sent |-> sent,
                               sock |-> writable,
                               ret |-> "continue"])
       IN  /\ sequence_number' = e.sequence_number
           /\ pending_responses' = e.pending_responses
           /\ pending_request' = e.pending_request
           /\ requests' = e.requests
           /\ sent' = e.sent
           /\ last_outgoing' = e.ret
           /\ outcome' = CASE e.ret = "socket_error" -> "Err(Network(Io))"
                           [] e.ret = "assertion" -> "panicked"
                           [] OTHER -> outcome
           /\ pc' = IF e.ret \in {"socket_error", "assertion"} THEN "done" ELSE "parked"
    /\ UNCHANGED << codec, transport, subscriptions, discovery, inbox, last_incoming, dropped, client_alive, called,
                    results, narrived >>

\* The task that awaited the Connection ends and the Connection is dropped.
DropConnection ==
    /\ pc = "done"
    /\ ~dropped
    /\ dropped' = TRUE
    /\ results' = drop_sinks(results)
    /\ pending_responses' = EmptyTable
    /\ pending_request' = << >>
    /\ requests' = << >>
    /\ UNCHANGED << codec, transport, subscriptions, sequence_number, discovery, inbox, pc, outcome, last_outgoing, last_incoming,
                    client_alive, called, sent, narrived >>

-----------------------------------------------------------------------------
(* The Transport (lifx-client/src/transport.rs): the send path that hands
   every call straight to the socket. *)

\* Transport::new, with what the model records beside its fields: the number
\* of packets handed to the socket and the last of them, the kind and the
\* result of the last call, the sinks that received a message, the number of
\* addresses published, and the numbers of calls made and datagrams received.
TransportNew ==
    [sequence_number |-> 1, pending |-> EmptyTable,
     sent |-> 0, packet |-> << >>, op |-> "new", ret |-> "none",
     delivered |-> {}, published |-> 0,
     calls |-> 0, received |-> 0]

\* Transport::next_sequence
Transport_next_sequence(t) ==
    [seq |-> t.sequence_number,
     t |-> [t EXCEPT !.sequence_number = WrappingInc(@)]]

\* Transport::send_message: the socket takes the packet or fails.
Transport_send_message(t, packet, sock) ==
    IF sock = "failed" THEN [t EXCEPT !.ret = "Network"]
    ELSE [t EXCEPT !.sent = @ + 1, !.packet = << packet >>, !.ret = "Ok"]

\* Transport::send_and_forget
Transport_send_and_forget(t, sock) ==
    LET ns == Transport_next_sequence(t)
    IN  Transport_send_message(ns.t,
            [sequence |-> ns.seq, response_required |-> FALSE,
             acknowledgement_required |-> FALSE, id |-> t.calls + 1], sock)

\* Transport::send_with_response, `kind` being the variant of PendingResponse
\* the caller passed in.
Transport_send_with_response(t, kind, sock) ==
    LET ns == Transport_next_sequence(t)
    IN  IF ns.seq \in DOMAIN ns.t.pending
        THEN [ns.t EXCEPT !.ret = "SequenceExhausted"]
        ELSE Transport_send_message(
                 [ns.t EXCEPT !.pending = Insert(@, ns.seq, [kind |-> kind, id |-> t.calls + 1])],
                 [sequence |-> ns.seq, response_required |-> kind = "Reply",
                  acknowledgement_required |-> kind = "Acknowledgement",
                  id |-> t.calls + 1], sock)

\* Transport::process_message
Transport_process_message(t, m) ==
    IF m.source # Source THEN t
    ELSE IF m.message.type = "StateService"
    THEN IF m.message.service = "Udp" THEN [t EXCEPT !.published = @ + 1] ELSE t
    ELSE IF m.sequence \in DOMAIN t.pending
    THEN LET removed == [t EXCEPT !.pending = Remove(@, m.sequence)]
         IN  IF t.pending[m.sequence].kind = "Reply"
             THEN [removed EXCEPT !.delivered = @ \cup {t.pending[m.sequence].id}]
             ELSE removed
    ELSE t

-----------------------------------------------------------------------------

\* The codec is not part of the engine's behaviours: there it stays idle.
CodecIdle == [stage |-> "idle"]

\* Connection::new
EngineInit ==
    /\ sequence_number = 0
    /\ pending_responses = EmptyTable
    /\ pending_request = << >>
    /\ requests = << >>
    /\ discovery = << >>
    /\ inbox = << >>
    /\ pc = "running"
    /\ outcome = "Pending"
    /\ last_outgoing = "none"
    /\ last_incoming = << >>
    /\ dropped = FALSE
    /\ client_alive = TRUE
    /\ called = {}
    /\ results = NoResults
    /\ sent = << >>
    /\ narrived = 0
    /\ subscriptions = NoSubscriptions
    /\ transport = TransportNew

Init == codec = CodecIdle /\ EngineInit

\* Four callers, any datagram, and every way the engine ends.
Next ==
    \/ send_discovery({DiscoveryCaller})
    \/ \E c \in LabelCallers : (LabelCallers \cap (Burst + 1 .. c - 1)) \subseteq called
                               /\ get_label({c}, BulbAddress)
    \/ set_light_color({ColorCaller}, BulbAddress)
    \/ ClientDrop
    \/ \E id \in Cancellers : CallerCancel(id)
    \/ \E d \in Datagrams : Receive(d)
    \/ Wake
    \/ IncomingError
    \/ IncomingMessage
    \/ \E writable \in {"ready", "pending", "failed"} : Outgoing(writable)
    \/ DropConnection

Spec == Init /\ [][Next]_vars

\* The engine under load: the burst of callers fills the sequence space, and
\* replies arrive for the first and the last sequence number.
LoadDatagrams == {Inbound("none", Source, seq, StateLabel) : seq \in {0, U8_MAX}}

NextLoad ==
    \/ get_label(Crowd, BulbAddress)
    \/ \E c \in LabelCallers : (LabelCallers \cap (Burst + 1 .. c - 1)) \subseteq called
                               /\ get_label({c}, BulbAddress)
    \/ send_discovery({DiscoveryCaller})
    \/ \E d \in LoadDatagrams : Receive(d)
    \/ Wake
    \/ IncomingMessage
    \/ \E writable \in {"ready", "pending"} : Outgoing(writable)

SpecLoad == Init /\ [][NextLoad]_vars

\* Discovery: a broadcast and a get_label are outstanding while devices and
\* other clients' devices answer.
\* StateService.port is a u32: ports that do not fit a u16.
WidePorts == {65536, 65536 + DefaultPort, 2147483647}

DiscoveryDatagrams ==
    {Inbound("none", Source, 0, StateServiceUdp),
     Inbound("none", Source, 0, StateServiceUnknown),
     Inbound("none", Source, 1, StateLabel),
     Inbound("none", Source, 1, StateServiceUdp),
     Inbound("none", OtherSource, 1, StateServiceUdp)}
    \cup {Inbound("none", Source, 0, Msg("StateService", "Udp", port, "")) : port \in WidePorts}

NextDiscovery ==
    \/ send_discovery({DiscoveryCaller})
    \/ get_label({Burst + 1}, BulbAddress)
    \/ \E d \in DiscoveryDatagrams : Receive(d)
    \/ Wake
    \/ IncomingMessage
    \/ \E writable \in {"ready", "pending"} : Outgoing(writable)

SpecDiscovery == Init /\ [][NextDiscovery]_vars

\* The discovery channel under a stream of advertisements: a subscription of
\* send_discovery and a clone's read at their own pace.
MaxAdvertised == 12

\* A device advertises itself; each advertisement names another port.
Advertise ==
    /\ pc = "parked"
    /\ narrived < MaxAdvertised
    /\ narrived' = narrived + 1
    /\ inbox' = Append(inbox, Inbound("none", Source, 0,
                                      Msg("StateService", "Udp", narrived + 1, "")))
    /\ UNCHANGED << codec, transport, subscriptions, sequence_number, pending_responses,
                    pending_request, requests, discovery, pc, outcome, last_outgoing,
                    last_incoming, dropped, client_alive, called, results, sent >>

NextBroadcast ==
    \/ send_discovery({DiscoveryCaller})
    \/ CloneClient(Burst + 6)
    \/ Advertise
    \/ Wake
    \/ IncomingMessage
    \/ Outgoing("ready")
    \/ \E c \in {DiscoveryCaller, Burst + 6} : Recv(c)

SpecBroadcast == Init /\ [][NextBroadcast]_vars

\* Clones of the Client: handles are cloned and dropped, the original too,
\* while requests are made and devices advertise themselves.
NextClones ==
    \/ \E c \in CloneIds : CloneClient(c)
    \/ \E c \in CloneIds : DropClone(c)
    \/ ClientDrop
    \/ get_label({Burst + 1}, BulbAddress)
    \/ send_discovery({DiscoveryCaller})
    \/ \E d \in DiscoveryDatagrams : Receive(d)
    \/ Wake
    \/ IncomingMessage
    \/ \E writable \in {"ready", "pending"} : Outgoing(writable)
    \/ \E c \in CloneIds \cup {DiscoveryCaller} : Recv(c)

SpecClones == Init /\ [][NextClones]_vars

\* The helpers: get_label and get_light_state are outstanding, and replies of
\* the expected and of other types arrive under either sequence number.
HelperDatagrams ==
    {Inbound("none", Source, seq, msg) :
        seq \in {0, 1}, msg \in {StateLabel, LightState, StateServiceUdp}}

NextHelpers ==
    \/ get_label({Burst + 1}, BulbAddress)
    \/ get_light_state({StateCaller}, BulbAddress)
    \/ \E d \in HelperDatagrams : Receive(d)
    \/ Wake
    \/ IncomingMessage
    \/ \E writable \in {"ready", "pending"} : Outgoing(writable)

SpecHelpers == Init /\ [][NextHelpers]_vars


\* Discovery under load: the burst of get_label calls, one more, and the
\* broadcast, with devices answering the broadcast under the sequence numbers
\* it can go out with.
CrossTalkDatagrams == {Inbound("none", Source, seq, StateServiceUdp) : seq \in {0, U8_MAX}}

NextCrossTalk ==
    \/ get_label(Crowd, BulbAddress)
    \/ get_label({Burst + 1}, BulbAddress)
    \/ send_discovery({DiscoveryCaller})
    \/ \E d \in CrossTalkDatagrams : Receive(d)
    \/ Wake
    \/ IncomingMessage
    \/ Outgoing("ready")

SpecCrossTalk == Init /\ [][NextCrossTalk]_vars

\* The engine blocked: the sequence space is filled and one more request is
\* deferred, the broadcast is queued behind it, and the only datagrams that
\* arrive and wake the engine are those of another client, which match nothing.
BlockedDatagrams ==
    {Inbound("none", OtherSource, 0, msg) : msg \in {StateLabel, StateServiceUdp}}

NextBlocked ==
    \/ get_label(Crowd, BulbAddress)
    \/ \E c \in LabelCallers : (LabelCallers \cap (Burst + 1 .. c - 1)) \subseteq called
                               /\ get_label({c}, BulbAddress)
    \/ send_discovery({DiscoveryCaller})
    \/ \E d \in BlockedDatagrams : Receive(d)
    \/ Wake
    \/ IncomingMessage
    \/ \E writable \in {"ready", "pending"} : Outgoing(writable)

SpecBlocked == Init /\ [][NextBlocked]_vars

\* send_discovery racing with the engine: the caller's two steps, the engine's
\* polls, and devices that answer the broadcast once it has been sent, under
\* its sequence number.
RacePorts == {DefaultPort, DefaultPort + 1, DefaultPort + 2}

Answer(port) ==
    /\ \E k \in DOMAIN sent : sent[k].message = GetService /\ sent[k].sequence = 0
    /\ Receive(Inbound("none", Source, 0, Msg("StateService", "Udp", port, "")))

NextRace ==
    \/ send_discovery_enqueue({DiscoveryCaller})
    \/ send_discovery_subscribe(DiscoveryCaller)
    \/ \E port \in RacePorts : Answer(port)
    \/ Wake
    \/ IncomingMessage
    \/ Outgoing("ready")
    \/ Recv(DiscoveryCaller)

SpecRace == Init /\ [][NextRace]_vars

\* The Transport on its own: calls of its two send methods and datagrams for
\* the first sequence numbers it gives out, of its own and of another source.
transport_frame == << codec, sequence_number, pending_responses, pending_request, requests,
                      discovery, inbox, pc, outcome, last_outgoing, last_incoming, dropped,
                      client_alive, called, results, sent, narrived, subscriptions >>

TransportDatagrams ==
    {Inbound("none", Source, seq, StateLabel) : seq \in {1, 2}}
    \cup {Inbound("none", OtherSource, 1, StateLabel),
          Inbound("none", Source, 1, StateServiceUdp)}

Socks(t) == {"ok"} \cup IF t.calls < Varied THEN {"failed"} ELSE {}

\* A call of Transport::send_with_response, awaited to its end.
TransportSendWithResponse(kind) ==
    /\ transport.calls < MaxCalls
    /\ kind = "Reply" \/ transport.calls < Varied
    /\ \E sock \in Socks(transport) :
          transport' = [Transport_send_with_response(transport, kind, sock) EXCEPT
                           !.op = "send_with_response",
                           !.calls = @ + 1]
    /\ UNCHANGED transport_frame

\* A call of Transport::send_and_forget, awaited to its end.
TransportSendAndForget ==
    /\ transport.calls < Varied
    /\ \E sock \in Socks(transport) :
          transport' = [Transport_send_and_forget(transport, sock) EXCEPT
                           !.op = "send_and_forget",
                           !.calls = @ + 1]
    /\ UNCHANGED transport_frame

\* Transport::receive_message on a datagram the socket yields.
TransportReceive(m) ==
    /\ transport.received < MaxReceived
    /\ transport' = [Transport_process_message(transport, m) EXCEPT
                        !.op = "receive_message", !.received = @ + 1]
    /\ UNCHANGED transport_frame

NextTransport ==
    \/ \E kind \in {"Reply", "Acknowledgement"} : TransportSendWithResponse(kind)
    \/ TransportSendAndForget
    \/ \E m \in TransportDatagrams : TransportReceive(m)

SpecTransport == Init /\ [][NextTransport]_vars

-----------------------------------------------------------------------------
(* The wire codec (lifx-proto).  Buffers are sequences of bytes, and text is
   the sequence of its UTF-8 bytes. *)

engine_vars == << sequence_number, pending_responses, pending_request, requests,
                  discovery, inbox, pc, outcome, last_outgoing, last_incoming,
                  dropped, client_alive, called, results, sent, narrived, subscriptions,
                  transport >>

MAX_LENGTH == 32     \* Label::MAX_LENGTH

\* n zero bytes
Zeros(n) == [i \in 1..n |-> 0]

\* n bytes 'a'
Fill(n) == [i \in 1..n |-> 97]

\* "Kitchen"
Kitchen == << 75, 105, 116, 99, 104, 101, 110 >>

\* String::from_utf8 succeeds.  The texts used here are ASCII, which is valid,
\* or hold the byte 0xFF, which no UTF-8 text contains.
IsUtf8(bytes) == \A i \in DOMAIN bytes : bytes[i] < 128

\* A value the codec produced, or the error it failed with.
Done(value, rest) == [ok |-> TRUE, value |-> value, rest |-> rest, error |-> "-", n |-> 0]
Failed(error, n) == [ok |-> FALSE, value |-> << >>, rest |-> << >>, error |-> error, n |-> n]

\* TryFrom<String> for Label
LabelTryFrom(value) ==
    IF Len(value) <= MAX_LENGTH THEN Done(value, << >>)
    ELSE Failed("InvalidLabel", 0)

\* A label written without its padding.
LabelEncodeUnpadded(label) == label

\* Label::encode into a buffer with room for it: the text, then zeros up to
\* MAX_LENGTH bytes.
LabelEncode(label) == label \o Zeros(MAX_LENGTH - Len(label))

\* Label::decode: the first MAX_LENGTH bytes of the buffer, as they are, if
\* they are UTF-8.
LabelDecode(buf) ==
    IF Len(buf) < MAX_LENGTH THEN Failed("InsufficientData", Len(buf))
    ELSE LET str_bytes == SubSeq(buf, 1, MAX_LENGTH)
         IN  IF IsUtf8(str_bytes)
             THEN Done(str_bytes, SubSeq(buf, MAX_LENGTH + 1, Len(buf)))
             ELSE Failed("InvalidLabel", 0)

HEADER_SIZE == 36        \* Header::HEADER_SIZE
PROTOCOL_NUMBER == 1024  \* Header::PROTOCOL_NUMBER

\* BitField::get_bit, get_bits(lo..hi) and set_bit
get_bit(w, i) == (w \div 2^i) % 2 = 1
get_bits(w, lo, hi) == (w \div 2^lo) % 2^(hi - lo)
set_bit(w, i, v) ==
    IF v = get_bit(w, i) THEN w
    ELSE IF v THEN w + 2^i ELSE w - 2^i

\* A u32, as its high and its low 16 bits.
U32(hi, lo) == [hi |-> hi, lo |-> lo]

\* put_u16_le, put_u32_le and get_u16_le, get_u32_le at position `at`
U16LE(n) == << n % 256, (n \div 256) % 256 >>
U32LE(n) == U16LE(n.lo) \o U16LE(n.hi)
GetU16LE(buf, at) == buf[at] + 256 * buf[at + 1]
GetU32LE(buf, at) == U32(GetU16LE(buf, at + 2), GetU16LE(buf, at))

\* DeviceTarget::All and DeviceTarget::Targeted(mac), mac being 6 bytes
TargetAll == [kind |-> "All", mac |-> << >>]
Targeted(mac) == [kind |-> "Targeted", mac |-> mac]

\* aa:bb:cc:dd:ee:ff
BulbMac == << 170, 187, 204, 221, 238, 255 >>

\* MessageType: the supported types, and Other(code) for every other code.
NamedType(name) == [name |-> name, code |-> 0]
OtherType(code) == [name |-> "Other", code |-> code]

\* From<u16> for MessageType
MessageTypeFrom(value) ==
    CASE value = 2 -> NamedType("GetService")
      [] value = 3 -> NamedType("StateService")
      [] value = 23 -> NamedType("GetLabel")
      [] value = 24 -> NamedType("SetLabel")
      [] value = 25 -> NamedType("StateLabel")
      [] value = 45 -> NamedType("Acknowledgement")
      [] value = 101 -> NamedType("Get")
      [] value = 102 -> NamedType("SetColor")
      [] value = 107 -> NamedType("State")
      [] OTHER -> OtherType(value)

\* Into<u16> for MessageType
MessageTypeInto(type) ==
    CASE type.name = "GetService" -> 2
      [] type.name = "StateService" -> 3
      [] type.name = "GetLabel" -> 23
      [] type.name = "SetLabel" -> 24
      [] type.name = "StateLabel" -> 25
      [] type.name = "Acknowledgement" -> 45
      [] type.name = "Get" -> 101
      [] type.name = "SetColor" -> 102
      [] type.name = "State" -> 107
      [] OTHER -> type.code

\* A protocol-flags word without the tagged bit, whatever the target.
ProtoFlagsUntagged(target) == set_bit(PROTOCOL_NUMBER, 12, TRUE)

\* Header::encode: the protocol-flags word; origin stays 0.
ProtoFlags(target) ==
    set_bit(set_bit(PROTOCOL_NUMBER, 12, TRUE), 13, target.kind = "All")

\* Header::encode: the 8 bytes of the target field.
TargetBytes(target) ==
    IF target.kind = "All" THEN Zeros(8) ELSE target.mac \o Zeros(2)

\* Header::encode
HeaderEncode(h) ==
    U16LE(h.size)
    \o U16LE(ProtoFlags(h.target))
    \o U32LE(h.source)
    \o TargetBytes(h.target)
    \o Zeros(6)
    \o << set_bit(set_bit(0, 0, h.response_required), 1, h.acknowledgement_required) >>
    \o << h.sequence >>
    \o Zeros(8)
    \o U16LE(MessageTypeInto(h.message_type))
    \o Zeros(2)

\* A decoded target that is the target field's address, tagged or not.
DecodedTargetUntagged(tagged, mac) == Targeted(mac)

\* Header::decode: the target is All if the tagged bit is set.
DecodedTarget(tagged, mac) == IF tagged THEN TargetAll ELSE Targeted(mac)

\* Header::decode on a buffer that holds at least HEADER_SIZE bytes (bytes::Buf
\* panics when asked for more than it holds).
HeaderDecode(buf) ==
    LET size == GetU16LE(buf, 1)
        proto_flags == GetU16LE(buf, 3)
        protocol == proto_flags % 4096
        origin == get_bits(proto_flags, 14, 16)
    IN  IF Len(buf) < 4 THEN Failed("panic", 0)
        ELSE IF protocol # PROTOCOL_NUMBER THEN Failed("InvalidProtocol", protocol)
        ELSE IF origin # 0 THEN Failed("InvalidOrigin", origin)
        ELSE IF ~get_bit(proto_flags, 12) THEN Failed("NotAddressable", 0)
        ELSE IF Len(buf) < HEADER_SIZE THEN Failed("panic", 0)
        ELSE Done([size |-> size,
                   source |-> GetU32LE(buf, 5),
                   target |-> DecodedTarget(get_bit(proto_flags, 13), SubSeq(buf, 9, 14)),
                   response_required |-> get_bit(buf[23], 0),
                   acknowledgement_required |-> get_bit(buf[23], 1),
                   sequence |-> buf[24],
                   message_type |-> MessageTypeFrom(GetU16LE(buf, 33))],
                  SubSeq(buf, HEADER_SIZE + 1, Len(buf)))

\* Service::Udp and Service::Unknown(id), with Into<u8> and From<u8>
ServiceUdp == [kind |-> "Udp", id |-> 1]
ServiceUnknown(id) == [kind |-> "Unknown", id |-> id]
ServiceInto(service) == IF service.kind = "Udp" THEN 1 ELSE service.id
ServiceFrom(value) == IF value = 1 THEN ServiceUdp ELSE ServiceUnknown(value)

\* Hsbk, its temperature being a Kelvin
Hsbk(hue, saturation, brightness, temperature) ==
    [hue |-> hue, saturation |-> saturation, brightness |-> brightness,
     temperature |-> temperature]

\* Hsbk::encode
HsbkEncode(color) ==
    U16LE(color.hue) \o U16LE(color.saturation) \o U16LE(color.brightness)
    \o U16LE(color.temperature)

\* A decoding that takes any temperature for a Kelvin.
HsbkDecodeUnchecked(buf) ==
    Done(Hsbk(GetU16LE(buf, 1), GetU16LE(buf, 3), GetU16LE(buf, 5), GetU16LE(buf, 7)),
         SubSeq(buf, 9, Len(buf)))

\* Hsbk::decode, with Kelvin::try_from
HsbkDecode(buf) ==
    LET temperature == GetU16LE(buf, 7)
    IN  IF temperature >= 2500 /\ temperature <= 9000
        THEN Done(Hsbk(GetU16LE(buf, 1), GetU16LE(buf, 3), GetU16LE(buf, 5), temperature),
                  SubSeq(buf, 9, Len(buf)))
        ELSE Failed("InvalidPayload", temperature)

\* A Duration: its whole milliseconds, as the part above 2^32 ms counted in
\* units of 2^32 ms and the part below as a u32, and the nanoseconds left.
Duration(above, millis, nanos) == [above |-> above, millis |-> millis, nanos |-> nanos]

\* A Message: its variant and the fields of its payload (those the variant
\* does not have are left at NoService, NoPort, << >>, NoColor, NoDuration, 0).
NoService == [kind |-> "-", id |-> 0]
NoColor == Hsbk(0, 0, 0, 0)
NoPort == U32(0, 0)
NoDuration == Duration(0, U32(0, 0), 0)
WireMsg(type, service, port, label, color, duration, power) ==
    [type |-> type, service |-> service, port |-> port, label |-> label,
     color |-> color, duration |-> duration, power |-> power]

Plain(type) == WireMsg(type, NoService, NoPort, << >>, NoColor, NoDuration, 0)
WireStateService(service, port) ==
    WireMsg("StateService", service, port, << >>, NoColor, NoDuration, 0)
WireSetLabel(label) ==
    WireMsg("SetLabel", NoService, NoPort, label, NoColor, NoDuration, 0)
WireStateLabel(label) ==
    WireMsg("StateLabel", NoService, NoPort, label, NoColor, NoDuration, 0)
WireSetColor(color, duration) ==
    WireMsg("SetColor", NoService, NoPort, << >>, color, duration, 0)
WireState(color, power, label) ==
    WireMsg("State", NoService, NoPort, label, color, NoDuration, power)

\* Message::message_type
message_type(message) == NamedType(message.type)

\* Message::payload_size
payload_size(message) ==
    CASE message.type = "StateService" -> 5
      [] message.type \in {"SetLabel", "StateLabel"} -> MAX_LENGTH
      [] message.type = "SetColor" -> 1 + 8 + 4
      [] message.type = "State" -> 8 + 2 + 2 + MAX_LENGTH + 8
      [] OTHER -> 0

\* A conversion that stops at u32::MAX milliseconds.
AsMillisSaturating(duration) ==
    IF duration.above > 0 THEN U32(65535, 65535) ELSE duration.millis

\* Duration::as_millis() as u32, and Duration::from_millis
AsMillisU32(duration) == duration.millis
FromMillis(millis) == Duration(0, millis, 0)

\* Message::encode_payload
encode_payload(message) ==
    CASE message.type = "StateService" ->
            << ServiceInto(message.service) >> \o U32LE(message.port)
      [] message.type \in {"SetLabel", "StateLabel"} -> LabelEncode(message.label)
      [] message.type = "SetColor" ->
            << 0 >> \o HsbkEncode(message.color) \o U32LE(AsMillisU32(message.duration))
      [] message.type = "State" ->
            HsbkEncode(message.color) \o U16LE(0) \o U16LE(message.power)
            \o LabelEncode(message.label) \o Zeros(8)
      [] OTHER -> << >>

\* Message::decode.  Reading past the end of the buffer panics, except in
\* Label::decode, which reports it.
MessageDecode(header, buf) ==
    LET type == header.message_type.name
    IN  CASE type = "Other" -> Failed("UnexpectedMessage", header.message_type.code)
          [] type = "StateService" ->
                IF Len(buf) < 5 THEN Failed("panic", 0)
                ELSE Done(WireStateService(ServiceFrom(buf[1]), GetU32LE(buf, 2)),
                          SubSeq(buf, 6, Len(buf)))
          [] type \in {"SetLabel", "StateLabel"} ->
                LET label == LabelDecode(buf)
                IN  IF ~label.ok THEN label
                    ELSE Done(WireMsg(type, NoService, NoPort, label.value, NoColor,
                                      NoDuration, 0),
                              label.rest)
          [] type = "SetColor" ->
                IF Len(buf) < 13 THEN Failed("panic", 0)
                ELSE LET color == HsbkDecode(SubSeq(buf, 2, Len(buf)))
                     IN  IF ~color.ok THEN color
                         ELSE Done(WireSetColor(color.value,
                                                FromMillis(GetU32LE(color.rest, 1))),
                                   SubSeq(color.rest, 5, Len(color.rest)))
          [] type = "State" ->
                IF Len(buf) < 12 THEN Failed("panic", 0)
                ELSE LET color == HsbkDecode(buf)
                         label == LabelDecode(SubSeq(buf, 13, Len(buf)))
                     IN  IF ~color.ok THEN color
                         ELSE IF ~label.ok THEN label
                         ELSE IF Len(label.rest) < 8 THEN Failed("panic", 0)
                         ELSE Done(WireState(color.value, GetU16LE(buf, 11), label.value),
                                   SubSeq(label.rest, 9, Len(label.rest)))
          [] OTHER -> Done(Plain(type), buf)

\* PacketOptions
PacketOptions(source, target, sequence, response_required, acknowledgement_required) ==
    [source |-> source, target |-> target, sequence |-> sequence,
     response_required |-> response_required,
     acknowledgement_required |-> acknowledgement_required]

\* encode_packet and write_header: the header, its size the header's plus the
\* payload's, then the payload.
encode_packet(options, message) ==
    HeaderEncode([size |-> HEADER_SIZE + payload_size(message),
                  source |-> options.source,
                  target |-> options.target,
                  response_required |-> options.response_required,
                  acknowledgement_required |-> options.acknowledgement_required,
                  sequence |-> options.sequence,
                  message_type |-> message_type(message)])
    \o encode_payload(message)

\* Decoding one packet, as Codec::decode does it: the header, then the
\* message the header announces.
PacketDecode(buf) ==
    LET header == HeaderDecode(buf)
    IN  IF ~header.ok THEN header
        ELSE LET message == MessageDecode(header.value, header.rest)
             IN  IF ~message.ok THEN message
                 ELSE Done([header |-> header.value, message |-> message.value],
                           message.rest)

\* What the codec is at work on.
Work(stage, kind, input, bytes, output) ==
    [stage |-> stage, kind |-> kind, input |-> input, bytes |-> bytes, output |-> output]

\* The texts a label is made from: empty, short, one byte below the limit, at
\* the limit and one byte above it.
LabelInputs ==
    {<< >>, Kitchen, Fill(MAX_LENGTH - 1), Fill(MAX_LENGTH), Fill(MAX_LENGTH + 1)}

\* Label::try_from(text): the label is constructed, or refused.
ConstructLabel ==
    /\ codec.stage = "input"
    /\ codec.kind = "label"
    /\ codec' = [codec EXCEPT !.stage = IF LabelTryFrom(codec.input).ok
                                        THEN "constructed" ELSE "rejected",
                               !.output = LabelTryFrom(codec.input)]
    /\ UNCHANGED engine_vars

\* label.encode(buf)
EncodeLabel ==
    /\ codec.stage = "constructed"
    /\ codec.kind = "label"
    /\ codec' = [codec EXCEPT !.stage = "encoded",
                               !.bytes = LabelEncode(codec.output.value)]
    /\ UNCHANGED engine_vars

\* Label::decode(buf)
DecodeLabel ==
    /\ codec.stage = "encoded"
    /\ codec.kind = "label"
    /\ codec' = [codec EXCEPT !.stage = "decoded", !.output = LabelDecode(codec.bytes)]
    /\ UNCHANGED engine_vars

\* The packets encoded: every message variant, under either kind of target,
\* every combination of flags, and the ends of the ranges of source and
\* sequence.
Warm == Hsbk(21845, 65535, 32768, 3500)
CodecMessages ==
    {Plain(type) : type \in {"GetService", "GetLabel", "Acknowledgement", "Get"}}
    \cup {WireStateService(ServiceUdp, U32(0, DefaultPort)),
          WireStateService(ServiceUnknown(5), U32(1, 0))}
    \cup {WireSetLabel(Kitchen), WireStateLabel(Kitchen), WireStateLabel(Fill(MAX_LENGTH))}
    \cup {WireSetColor(Warm, FromMillis(U32(0, 5000))), WireState(Warm, 65535, Fill(MAX_LENGTH))}

CodecOptions ==
    {PacketOptions(source, target, sequence, rr, ar) :
        source \in {U32(0, Source), U32(65535, 65535)},
        target \in {TargetAll, Targeted(BulbMac)},
        sequence \in {0, U8_MAX}, rr \in BOOLEAN, ar \in BOOLEAN}

NoOutput == Failed("-", 0)

CodecInputs ==
    {Work("input", "label", text, << >>, NoOutput) : text \in LabelInputs}
    \cup {Work("input", "packet", [options |-> options, message |-> message],
                << >>, NoOutput) :
             options \in CodecOptions, message \in CodecMessages}

\* encode_packet(options, message, buf)
EncodePacket ==
    /\ codec.stage = "input"
    /\ codec.kind = "packet"
    /\ codec' = [codec EXCEPT !.stage = "encoded",
                               !.bytes = encode_packet(codec.input.options,
                                                       codec.input.message)]
    /\ UNCHANGED engine_vars

\* Protocol-flags words a datagram may carry: well-formed ones, and ones with
\* a wrong protocol number, without the addressable bit or with an origin.
FlagWords ==
    {PROTOCOL_NUMBER + 4096, PROTOCOL_NUMBER + 4096 + 8192,
     PROTOCOL_NUMBER, PROTOCOL_NUMBER + 8192,
     PROTOCOL_NUMBER + 1 + 4096, 4096,
     PROTOCOL_NUMBER + 4096 + 16384, PROTOCOL_NUMBER + 4096 + 8192 + 49152,
     PROTOCOL_NUMBER + 32768, 1023 + 16384}

\* The datagram is one a device built by other means: its protocol-flags word
\* and its target field are not those Header::encode writes.
Tamper(word, field) ==
    /\ codec.stage = "encoded"
    /\ codec.kind = "packet"
    /\ codec.input.message.type = "GetService"
    /\ codec' = [codec EXCEPT !.stage = "tampered",
                               !.bytes = SubSeq(codec.bytes, 1, 2) \o U16LE(word)
                                         \o SubSeq(codec.bytes, 5, 8) \o field
                                         \o SubSeq(codec.bytes, 17, Len(codec.bytes))]
    /\ UNCHANGED engine_vars

\* Header::decode and Message::decode on the bytes
DecodePacket ==
    /\ codec.stage \in {"encoded", "tampered"}
    /\ codec.kind = "packet"
    /\ codec' = [codec EXCEPT !.stage = IF codec.stage = "encoded" THEN "decoded"
                                        ELSE "decoded_tampered",
                               !.output = PacketDecode(codec.bytes)]
    /\ UNCHANGED engine_vars

\* The colours encoded: the ends of the ranges of hue, saturation and
\* brightness, and the ends and the middle of the range of Kelvin (a Kelvin
\* outside 2500..=9000 cannot be constructed).
HsbkInputs ==
    {Hsbk(hue, saturation, brightness, temperature) :
        hue \in {0, 21845, 65535}, saturation \in {0, 65535},
        brightness \in {0, 65535}, temperature \in {2500, 3500, 9000}}

\* color.encode(buf)
EncodeHsbk ==
    /\ codec.stage = "input"
    /\ codec.kind = "hsbk"
    /\ codec' = [codec EXCEPT !.stage = "encoded", !.bytes = HsbkEncode(codec.input)]
    /\ UNCHANGED engine_vars

\* The 8 bytes are ones a device built by other means: their temperature
\* field is not one Hsbk::encode writes.
TamperKelvin(temperature) ==
    /\ codec.stage = "encoded"
    /\ codec.kind = "hsbk"
    /\ codec' = [codec EXCEPT !.stage = "tampered",
                               !.bytes = SubSeq(codec.bytes, 1, 6) \o U16LE(temperature)]
    /\ UNCHANGED engine_vars

\* Hsbk::decode(buf)
DecodeHsbk ==
    /\ codec.stage \in {"encoded", "tampered"}
    /\ codec.kind = "hsbk"
    /\ codec' = [codec EXCEPT !.stage = IF codec.stage = "encoded" THEN "decoded"
                                        ELSE "decoded_tampered",
                               !.output = HsbkDecode(codec.bytes)]
    /\ UNCHANGED engine_vars

-----------------------------------------------------------------------------
(* The datagram codec of the client (lifx-client/src/codec.rs): framing. *)

MAX_PACKET_SIZE == 4096  \* 4 * 1024

\* A size check that also refuses a packet of exactly the maximum size.
OversizeFromMax(size) == size >= MAX_PACKET_SIZE

\* Codec::decode: `size > MAX_PACKET_SIZE`
Oversize(size) == size > MAX_PACKET_SIZE

\* An advance that empties the buffer.
AdvanceAll(src, size) == << >>

\* BytesMut::advance
Advance(src, size) == SubSeq(src, size + 1, Len(src))

\* Codec::decode on the buffer src: what it returns (Ok(None), Ok(Some(item))
\* or the error), and the buffer it leaves.
CodecDecode(src) ==
    IF Len(src) < HEADER_SIZE
    THEN [ret |-> "None", item |-> NoOutput, src |-> src]
    ELSE LET size == GetU16LE(src, 1)
         IN  IF Oversize(size)
             THEN [ret |-> "Err(Network(InvalidData))", item |-> NoOutput, src |-> src]
             ELSE IF Len(src) < size
             THEN [ret |-> "None", item |-> NoOutput, src |-> src]
             ELSE LET packet == PacketDecode(SubSeq(src, 1, size))
                  IN  IF packet.ok
                      THEN [ret |-> "Some", item |-> packet, src |-> Advance(src, size)]
                      ELSE [ret |-> IF packet.error = "panic" THEN "panic"
                                    ELSE "Err(Protocol)",
                            item |-> packet, src |-> src]

\* Codec::encode of each packet in turn, into one buffer.
RECURSIVE Frames(_)
Frames(packets) ==
    IF packets = << >> THEN << >>
    ELSE encode_packet(Head(packets).options, Head(packets).message)
         \o Frames(Tail(packets))

\* The buffers Codec::decode is called on.  One to three complete frames (of
\* a packet without payload, with a short and with a long payload), whole or
\* with the end cut off; and a first frame whose size field declares the
\* maximum size or more, with as many bytes buffered, or fewer.
StreamInputs ==
    LET options == PacketOptions(U32(0, Source), Targeted(BulbMac), 7, TRUE, FALSE)
        each == {[options |-> options, message |-> message] :
                    message \in {Plain("GetService"),
                                 WireStateService(ServiceUdp, U32(0, DefaultPort)),
                                 WireStateLabel(Fill(MAX_LENGTH))}}
        lists == {<< p >> : p \in each}
                 \cup {<< p, q >> : p \in each, q \in each}
                 \cup {<< p, q, r >> : p \in each, q \in each, r \in each}
        first == encode_packet(PacketOptions(U32(0, Source), TargetAll, 0, FALSE, FALSE),
                               Plain("GetService"))
    IN  {[packets |-> packets, cut |-> cut, declared |-> 0,
          buffer |-> SubSeq(Frames(packets), 1, Len(Frames(packets)) - cut)] :
            packets \in lists, cut \in {0, 1, HEADER_SIZE + 1}}
        \cup {[packets |-> << >>, cut |-> 0, declared |-> declared,
               buffer |-> U16LE(declared) \o SubSeq(first, 3, Len(first))
                          \o Zeros(more) \o first] :
                 declared \in {MAX_PACKET_SIZE, MAX_PACKET_SIZE + 1, 65535},
                 more \in {0, MAX_PACKET_SIZE - HEADER_SIZE,
                           MAX_PACKET_SIZE + 1 - HEADER_SIZE}}

\* Buffers that hold a whole frame of at least 36 bytes whose size field has
\* been changed to declare fewer bytes than a header, or fewer than the header
\* and the payload of the frame's message type.
MalformedInputs ==
    LET options == PacketOptions(U32(0, Source), Targeted(BulbMac), 7, TRUE, FALSE)
        messages == {Plain("GetService"),
                     WireStateService(ServiceUdp, U32(0, DefaultPort)),
                     WireStateLabel(Fill(MAX_LENGTH)),
                     WireSetColor(Warm, FromMillis(U32(0, 5000)))}
        sizes == {0, 2, 4, HEADER_SIZE - 1, HEADER_SIZE, HEADER_SIZE + 4,
                  HEADER_SIZE + 12, HEADER_SIZE + MAX_LENGTH - 1}
        short(message) == {d \in sizes : d < HEADER_SIZE + payload_size(message)}
    IN  UNION {{[packets |-> << [options |-> options, message |-> message] >>,
                 cut |-> 0, declared |-> declared,
                 buffer |-> U16LE(declared)
                            \o SubSeq(encode_packet(options, message), 3,
                                      HEADER_SIZE + payload_size(message))] :
                   declared \in short(message)} : message \in messages}

\* One call of Codec::decode on the buffer, as the framed socket makes them
\* until the codec asks for more data or fails.
Decode ==
    /\ codec.kind \in {"stream", "malformed"}
    /\ codec.stage \in {"input", "framing"}
    /\ LET r == CodecDecode(codec.bytes)
       IN  codec' = [codec EXCEPT
                        !.stage = IF r.ret = "Some" THEN "framing" ELSE "stopped",
                        !.bytes = r.src,
                        !.output = Append(@, [src |-> codec.bytes, ret |-> r.ret,
                                              item |-> r.item, rest |-> r.src])]
    /\ UNCHANGED engine_vars

\* The durations of a SetColor: whole milliseconds below 2^32 (0, 5000 and
\* the largest), with a part of a millisecond, and 2^32 milliseconds more.
DurationInputs ==
    {Duration(above, millis, nanos) :
        above \in {0, 1},
        millis \in {U32(0, 0), U32(0, 5000), U32(1, 0), U32(65535, 65535)},
        nanos \in {0, 1, 999999}}

InitCodec ==
    /\ codec \in CodecInputs
                \cup {Work("input", "packet",
                           [options |-> PacketOptions(U32(0, Source), Targeted(BulbMac),
                                                      0, FALSE, TRUE),
                            message |-> WireSetColor(Warm, duration)],
                           << >>, NoOutput) :
                         duration \in DurationInputs}
                \cup {Work("input", "stream", input, input.buffer, << >>) :
                         input \in StreamInputs}
                \cup {Work("input", "hsbk", color, << >>, NoOutput) :
                         color \in HsbkInputs}
                \cup {Work("input", "malformed", input, input.buffer, << >>) :
                         input \in MalformedInputs}
    /\ EngineInit

NextCodec ==
    \/ ConstructLabel
    \/ EncodeLabel
    \/ DecodeLabel
    \/ EncodePacket
    \/ \E word \in FlagWords, field \in {Zeros(8), BulbMac \o << 1, 2 >>} :
          Tamper(word, field)
    \/ DecodePacket
    \/ Decode
    \/ EncodeHsbk
    \/ \E temperature \in {0, 2499, 2500, 9000, 9001, 65535} : TamperKelvin(temperature)
    \/ DecodeHsbk

SpecCodec == InitCodec /\ [][NextCodec]_vars

-----------------------------------------------------------------------------
(* Steps of the engine, as seen from outside. *)

\* This step is handle_message on the message at the head of the inbox.
HandleStep ==
    /\ pc = "running"
    /\ inbox # << >>
    /\ poll_incoming(Head(inbox)) = "Ok"
    /\ inbox' = Tail(inbox)

\* This step is poll_incoming returning the error at the head of the inbox.
ErrorStep ==
    /\ pc = "running"
    /\ inbox # << >>
    /\ poll_incoming(Head(inbox)) # "Ok"
    /\ inbox' = Tail(inbox)

\* This step is poll_outgoing (and the rest of poll) with the socket writable.
WritableOutgoingStep ==
    /\ pc = "running"
    /\ inbox = << >>
    /\ pc' # "running"
    /\ last_outgoing' \notin {"not_writable", "socket_error"}

\* Every sequence number has an entry in the pending-response table.
Full == DOMAIN pending_responses = 0..U8_MAX

\* The request poll_request yields next, as a sequence of length <= 1.
NextRequest ==
    IF pending_request # << >> THEN pending_request
    ELSE IF requests # << >> THEN << Head(requests) >>
    ELSE << >>

SentIds == {sent[i].id : i \in DOMAIN sent}

-----------------------------------------------------------------------------
(* Claims. *)

\* C1: handle_message on a packet with the engine's source whose sequence has
\* a Reply entry removes the entry and delivers the whole message (header,
\* payload, peer address) to that entry's sink and to no other: the caller
\* that owns the sink, if it still waits, returns exactly that message.
C1_ReplyDelivered ==
    [][ ( /\ HandleStep
          /\ Head(inbox).source = Source
          /\ Head(inbox).sequence \in DOMAIN pending_responses
          /\ pending_responses[Head(inbox).sequence].kind = "Reply" )
        => LET m == Head(inbox)
               id == pending_responses[m.sequence].id
           IN  /\ m.sequence \notin DOMAIN pending_responses'
               /\ DOMAIN pending_responses' = DOMAIN pending_responses \ {m.sequence}
               /\ id \in Waiting =>
                     /\ id \in DOMAIN results'
                     /\ results'[id] = [state |-> "returned", reply |-> << m >>]
               /\ DOMAIN results' \subseteq DOMAIN results \cup {id}
               /\ \A c \in DOMAIN results : results'[c] = results[c]
               /\ outcome' = outcome
      ]_vars

\* C1 witness: a caller of get_label has returned the StateLabel message that
\* arrived under its sequence number, and its entry is gone.
C1_Witness ==
    \E c \in DOMAIN results :
        /\ results[c].state = "returned"
        /\ results[c].reply[1].message = StateLabel
        /\ results[c].reply[1].addr.ip = BulbAddress.ip
        /\ results[c].reply[1].sequence \notin DOMAIN pending_responses

\* C2: handle_message on a packet whose source is not the engine's triggers no
\* sink, publishes no discovery event and leaves the pending-response table
\* and the sequence counter as they are, whatever its sequence and type.
C2_SourceFiltering ==
    [][ (HandleStep /\ Head(inbox).source # Source)
        => /\ UNCHANGED << pending_responses, sequence_number, discovery, results >>
           /\ outcome' = "Pending"
      ]_vars

\* C2 witness: a packet of another source has been handled whose sequence
\* number has a pending entry, and a StateService of another source has been
\* handled with nothing published.
C2_Witness ==
    /\ last_incoming # << >>
    /\ last_incoming[1].item.fault = "none"
    /\ last_incoming[1].item.source # Source
    /\ last_incoming[1].item.sequence \in DOMAIN pending_responses
    /\ last_incoming[1].item.message.type = "StateService"
    /\ discovery = << >>

\* C3 (as claimed): when an Acknowledgement with the engine's source arrives
\* under the sequence number of a pending ack sink, the sink is signalled, the
\* caller of send_with_acknowledgement returns () and the engine keeps running.
C3_AckCompletes ==
    [][ ( /\ HandleStep
          /\ Head(inbox).source = Source
          /\ Head(inbox).message.type = "Acknowledgement"
          /\ Head(inbox).sequence \in DOMAIN pending_responses
          /\ pending_responses[Head(inbox).sequence].kind = "Acknowledgement"
          /\ pending_responses[Head(inbox).sequence].id \in Waiting )
        => LET id == pending_responses[Head(inbox).sequence].id
           IN  /\ id \in DOMAIN results'
               /\ results'[id].state = "acknowledged"
               /\ outcome' = "Pending"
               /\ pc' = "running"
      ]_vars

\* C4: the assertion of poll_outgoing never fires; the table never holds more
\* than 256 entries, no two of them for the same request; and every request
\* whose caller still waits for its packet's answer has its own entry, under
\* the sequence number its packet was sent with.
C4_NoSequenceReuse ==
    LET waiting == Waiting
        sinks == {pending_responses[s].id : s \in DOMAIN pending_responses}
    IN  /\ last_outgoing # "assertion"
        /\ DOMAIN pending_responses \subseteq 0..U8_MAX
        /\ Cardinality(DOMAIN pending_responses) <= U8_MAX + 1
        /\ Cardinality(sinks) = Cardinality(DOMAIN pending_responses)
        /\ dropped
           \/ \A i \in DOMAIN sent :
                 sent[i].id \in waiting
                 => /\ sent[i].sequence \in DOMAIN pending_responses
                    /\ pending_responses[sent[i].sequence].id = sent[i].id

\* C4 witness: all 256 sequence numbers are in use at once.
C4_Witness == Full /\ Cardinality(Waiting) >= U8_MAX + 1

\* C5: with all 256 sequence numbers in use, a response-expecting request
\* taken by poll_outgoing ends up in the deferred slot: nothing is sent, the
\* table is untouched, and its caller neither returns nor loses its sink.
C5_DeferredWhenFull ==
    [][ ( /\ WritableOutgoingStep
          /\ Full
          /\ NextRequest # << >>
          /\ NextRequest[1].response # "None" )
        => /\ pending_request' = NextRequest
           /\ pending_responses' = pending_responses
           /\ sent' = sent
           /\ results' = results
           /\ outcome' = "Pending"
           /\ (NextRequest[1].id \in Waiting => NextRequest[1].id \in Waiting')
      ]_vars

\* C5 witness: the table is full and a request whose caller still waits sits
\* in the deferred slot, unsent.
C5_Witness ==
    /\ Full
    /\ pc = "parked"
    /\ last_outgoing = "deferred"
    /\ pending_request # << >>
    /\ pending_request[1].id \in Waiting
    /\ pending_request[1].id \notin SentIds

\* C6 (as claimed): poll_outgoing defers a request only when all 256 sequence
\* numbers have entries in the pending-response table.
C6_DeferredOnlyWhenFull ==
    (pc = "parked" /\ last_outgoing = "deferred") => Full

\* C7 (as claimed): when a request sits in the deferred slot and the packet
\* just handled has removed an entry of the table, the poll_outgoing that
\* follows in the same poll, with the socket writable, sends the request.
C7_DeferredSentOnceSlotClears ==
    [][ ( /\ WritableOutgoingStep
          /\ last_outgoing = "deferred"
          /\ pending_request # << >>
          /\ last_incoming # << >>
          /\ last_incoming[1].matched )
        => /\ pending_request' = << >>
           /\ \E i \in DOMAIN sent' : sent'[i].id = pending_request[1].id
      ]_vars

\* C8 (as claimed): once the last request sender is gone and the queue is
\* drained, the poll that sees it completes the Connection future with Ok.
C8_CleanShutdown ==
    (pc = "parked" /\ last_outgoing = "queue_closed") => outcome = "Ok"

\* C9 (as claimed): a datagram that fails decoding ends only that packet: the
\* Connection future does not complete, and the table and the sequence
\* counter stay as they are.
C9_DecodeErrorNotFatal ==
    [][ (ErrorStep /\ Head(inbox).fault \in {"oversize", "unsupported"})
        => /\ outcome' = "Pending"
           /\ pc' = "running"
           /\ UNCHANGED << pending_responses, sequence_number >>
      ]_vars

\* C10: when the socket stream ends or a socket operation fails, the future
\* completes with a Network error (UnexpectedEof for the end of the stream);
\* and once the Connection has been dropped no caller is left waiting.
C10_SocketFailure ==
    /\ (last_incoming # << >> /\ last_incoming[1].item.fault = "eof")
          => (pc = "done" /\ outcome = "Err(Network(UnexpectedEof))")
    /\ (last_incoming # << >> /\ last_incoming[1].item.fault = "io_error")
          => (pc = "done" /\ outcome = "Err(Network(Io))")
    /\ last_outgoing = "socket_error"
          => (pc = "done" /\ outcome = "Err(Network(Io))")
    /\ dropped => Waiting = {}

\* C10 witness: the stream ended while a caller waited; the Connection was
\* dropped and the caller got ConnectionClosed.
C10_Witness ==
    /\ dropped
    /\ outcome = "Err(Network(UnexpectedEof))"
    /\ \E c \in DOMAIN results : results[c].state = "ConnectionClosed"

\* C11: once the Connection, and with it the receiver of the request queue,
\* has been dropped, every client operation returns ConnectionClosed and
\* queues nothing; and send_async (send_discovery) has returned by the end of
\* the step that calls it, whatever the state of the engine.
C11_ClosedAfterStop ==
    [][ /\ (dropped /\ called' # called)
           => /\ \A c \in called' \ called :
                    /\ c \in DOMAIN results'
                    /\ results'[c] = [state |-> "ConnectionClosed", reply |-> << >>]
              /\ requests' = requests
              /\ \A c \in DOMAIN results : results'[c] = results[c]
        /\ DiscoveryCaller \in called' => DiscoveryCaller \in DOMAIN results'
      ]_vars

\* C11 witness: send_discovery, get_label and set_light_color were all called
\* after the engine had stopped and was dropped, and each got ConnectionClosed.
C11_Witness ==
    /\ dropped
    /\ requests = << >>
    /\ sent = << >>
    /\ {DiscoveryCaller, ColorCaller} \cup LabelCallers \subseteq DOMAIN results
    /\ \A c \in DOMAIN results : results[c].state = "ConnectionClosed"

\* The packet at the head of the inbox is one that handle_message publishes.
Publishes(m) ==
    /\ m.source = Source
    /\ m.sequence \notin DOMAIN pending_responses
    /\ m.message.type = "StateService"
    /\ m.message.service = "Udp"

\* C12: handle_message publishes a discovery event if and only if the packet
\* has the engine's source, its sequence has no pending entry and it is a
\* StateService for Udp; then it publishes exactly one, the peer's IP address
\* with the payload's port (as u16) and the header's target.  Every other
\* unmatched packet changes nothing at all.
C12_DiscoveryPublication ==
    [][ HandleStep
        => LET m == Head(inbox)
           IN  /\ Publishes(m)
                  => /\ discovery' = Append(discovery,
                                            [ip |-> m.addr.ip,
                                             port |-> m.message.port % 65536,
                                             target |-> m.target])
                     /\ UNCHANGED << pending_responses, sequence_number, results >>
                     /\ outcome' = "Pending"
               /\ ~Publishes(m) => discovery' = discovery
               /\ ( /\ ~Publishes(m)
                    /\ m.source = Source
                    /\ m.sequence \notin DOMAIN pending_responses )
                  => /\ UNCHANGED << pending_responses, sequence_number, results,
                                     pending_request, requests, sent >>
                     /\ outcome' = "Pending"
      ]_vars

\* C12 witness: exactly one event, (192.0.2.5:56700, the bulb's target), has
\* been published, and the packet handled last, an unmatched StateService of
\* an unknown service, added none.
C12_Witness ==
    /\ discovery = << [ip |-> "192.0.2.5", port |-> 56700, target |-> BulbTarget] >>
    /\ last_incoming # << >>
    /\ last_incoming[1].item.source = Source
    /\ last_incoming[1].item.message = StateServiceUnknown
    /\ ~last_incoming[1].matched
    /\ narrived = 2

IsPrefix(a, b) == Len(a) <= Len(b) /\ SubSeq(b, 1, Len(a)) = a

\* The callers' requests in the order the engine serves them: those sent,
\* then the deferred one, then the queue from its head.
Line ==
    [i \in DOMAIN sent |-> sent[i].id]
    \o [i \in DOMAIN pending_request |-> pending_request[i].id]
    \o [i \in DOMAIN requests |-> requests[i].id]

\* C13: requests are sent in the order they entered the queue.  The line of
\* requests (sent, deferred, queued) only ever grows at its end, where
\* Client::send appends, and the packets sent are always its first part: so a
\* request enqueued before another is sent before it, deferred or not.
C13_ArrivalOrder ==
    [][ /\ IsPrefix(Line, Line')
        /\ IsPrefix(sent, sent')
        /\ Len(Line') > Len(Line) => (called' # called /\ sent' = sent)
      ]_vars

\* C13 witness: a get_label request sits in the deferred slot for lack of a
\* sequence number, and the discovery request enqueued after it, which needs
\* no slot, has not been sent ahead of it.
C13_Witness ==
    /\ pc = "parked"
    /\ last_outgoing = "deferred"
    /\ pending_request # << >>
    /\ requests # << >>
    /\ requests[1].id = DiscoveryCaller
    /\ DiscoveryCaller \notin SentIds
    /\ Len(sent) >= U8_MAX + 1

\* C14: every packet poll_outgoing hands to the socket carries the engine's
\* source and its request's target and message; response_required is set
\* exactly for a Reply sink and acknowledgement_required exactly for an
\* Acknowledgement sink, so the packet of set_light_color asks for an
\* acknowledgement and the discovery broadcast asks for nothing.
C14_PacketFlags ==
    [][ LET served == pending_request \o requests
        IN  /\ Len(sent') - Len(sent) <= Len(served)
            /\ \A k \in 1..(Len(sent') - Len(sent)) :
                  LET r == served[k]
                      p == sent'[Len(sent) + k]
                  IN  /\ p.id = r.id
                      /\ p.source = Source
                      /\ p.target = r.address.target
                      /\ p.message = r.message
                      /\ p.response_required = (r.response = "Reply")
                      /\ p.acknowledgement_required = (r.response = "Acknowledgement")
                      /\ ~(p.response_required /\ p.acknowledgement_required)
            /\ \A i \in DOMAIN sent' :
                  /\ sent'[i].id = ColorCaller
                     => /\ sent'[i].acknowledgement_required
                        /\ ~sent'[i].response_required
                        /\ sent'[i].target = BulbTarget
                  /\ sent'[i].id = DiscoveryCaller
                     => /\ ~sent'[i].acknowledgement_required
                        /\ ~sent'[i].response_required
                        /\ sent'[i].target = AllTarget
      ]_vars

\* C14 witness: a get_label, a set_light_color and a discovery packet have
\* been sent, with the flags (true, false), (false, true) and (false, false).
C14_Witness ==
    /\ \E i \in DOMAIN sent : /\ sent[i].id \in LabelCallers
                              /\ sent[i].response_required
                              /\ ~sent[i].acknowledgement_required
    /\ \E i \in DOMAIN sent : /\ sent[i].id = ColorCaller
                              /\ ~sent[i].response_required
                              /\ sent[i].acknowledgement_required
    /\ \E i \in DOMAIN sent : /\ sent[i].id = DiscoveryCaller
                              /\ ~sent[i].response_required
                              /\ ~sent[i].acknowledgement_required
                              /\ sent[i].source = 1234

\* C15: get_label returns the label exactly when the reply delivered to it
\* is a StateLabel, and get_light_state the state exactly when it is a State;
\* for a reply of any other type each returns UnexpectedMessage with that
\* reply's type, and never a value taken from it.
C15_HelperReplies ==
    \A c \in DOMAIN results :
        results[c].state = "returned"
        => LET m == results[c].reply[1].message
               label == get_label_output(results[c])
               state == get_light_state_output(results[c])
           IN  /\ c \in LabelCallers
                  => /\ m.type = "StateLabel"
                        => (label.ok /\ label.value = << m.label >>)
                     /\ m.type # "StateLabel"
                        => /\ ~label.ok
                           /\ label.value = << >>
                           /\ label.error = "UnexpectedMessage"
                           /\ label.type = m.type
               /\ c = StateCaller
                  => /\ m.type = "State"
                        => (state.ok /\ state.value = << m >>)
                     /\ m.type # "State"
                        => /\ ~state.ok
                           /\ state.value = << >>
                           /\ state.error = "UnexpectedMessage"
                           /\ state.type = m.type

\* C15 witness: get_label was answered with a State and get_light_state with
\* a StateLabel; each returned UnexpectedMessage with the type it was given.
C15_Witness ==
    /\ {Burst + 1, StateCaller} \subseteq DOMAIN results
    /\ get_label_output(results[Burst + 1]) = Err("UnexpectedMessage", "State")
    /\ get_light_state_output(results[StateCaller]) = Err("UnexpectedMessage", "StateLabel")

\* C15, the expected replies: get_label was answered with a StateLabel and
\* get_light_state with a State, and each returned the payload.
C15_WitnessOk ==
    /\ {Burst + 1, StateCaller} \subseteq DOMAIN results
    /\ get_label_output(results[Burst + 1]).ok
    /\ get_light_state_output(results[StateCaller]) = Ok(LightState)

\* C16 (as claimed): a text of at most 32 bytes makes a label, a longer one
\* does not; Label::encode writes exactly 32 bytes, the text and then zeros;
\* and Label::decode of those bytes gives the label back, the padding
\* stripped.
C16_LabelRoundTrip ==
    codec.kind = "label"
    => /\ codec.stage = "rejected" <=> (codec.stage # "input" /\ Len(codec.input) > 32)
       /\ codec.stage \in {"encoded", "decoded"}
          => /\ Len(codec.bytes) = 32
             /\ SubSeq(codec.bytes, 1, Len(codec.input)) = codec.input
             /\ \A i \in (Len(codec.input) + 1)..32 : codec.bytes[i] = 0
       /\ codec.stage = "decoded"
          => /\ codec.output.ok
             /\ codec.output.value = codec.input

\* The header fields a packet's options and message determine.
HeaderMatches(header, input) ==
    /\ header.source = input.options.source
    /\ header.target = input.options.target
    /\ header.sequence = input.options.sequence
    /\ header.response_required = input.options.response_required
    /\ header.acknowledgement_required = input.options.acknowledgement_required
    /\ header.message_type = NamedType(input.message.type)

\* C17 (as claimed): decoding the bytes encode_packet wrote for a packet
\* gives back its header fields and a message equal to its message, with
\* header.size the number of bytes written.
C17_PacketRoundTrip ==
    (codec.kind = "packet" /\ codec.stage = "decoded")
    => /\ codec.output.ok
       /\ HeaderMatches(codec.output.value.header, codec.input)
       /\ codec.output.value.header.size = Len(codec.bytes)
       /\ codec.output.value.message = codec.input.message
       /\ codec.output.rest = << >>

\* C18: encode_packet writes 36 bytes plus the payload size of the message
\* variant (0, 5, 32, 13 or 52), and bytes 0-1, read as a little-endian u16,
\* hold that total.
C18_EncodedLength ==
    (codec.kind = "packet" /\ codec.stage = "encoded")
    => LET type == codec.input.message.type
           payload == CASE type \in {"GetService", "GetLabel", "Get", "Acknowledgement"} -> 0
                        [] type = "StateService" -> 5
                        [] type \in {"SetLabel", "StateLabel"} -> 32
                        [] type = "SetColor" -> 13
                        [] type = "State" -> 52
       IN  /\ Len(codec.bytes) = 36 + payload
           /\ codec.bytes[1] + 256 * codec.bytes[2] = 36 + payload

\* C18 witness: a StateLabel for "Kitchen" has been encoded in 68 bytes and a
\* State could be encoded in 88.
C18_Witness ==
    /\ codec.kind = "packet"
    /\ codec.stage = "encoded"
    /\ codec.input.message = WireStateLabel(Kitchen)
    /\ Len(codec.bytes) = 68
    /\ codec.bytes[1] = 68
    /\ Len(encode_packet(codec.input.options, WireState(Warm, 1, Kitchen))) = 88

\* The protocol-flags word of the bytes, bit by bit.
FlagBit(bytes, i) == ((bytes[3] + 256 * bytes[4]) \div 2^i) % 2

\* C19: in every header written, the low 12 bits of the protocol-flags word
\* are 1024, bit 12 is set and bits 14-15 are zero; for target All bit 13 is
\* set and the 8 target bytes are zero; for Targeted(m) bit 13 is clear,
\* bytes 8-13 are m and bytes 14-15 are zero.
C19_HeaderFlags ==
    (codec.kind = "packet" /\ codec.stage = "encoded")
    => LET target == codec.input.options.target
       IN  /\ (codec.bytes[3] + 256 * codec.bytes[4]) % 4096 = 1024
           /\ FlagBit(codec.bytes, 12) = 1
           /\ FlagBit(codec.bytes, 14) = 0
           /\ FlagBit(codec.bytes, 15) = 0
           /\ target.kind = "All"
              <=> (FlagBit(codec.bytes, 13) = 1
                   /\ \A i \in 9..16 : codec.bytes[i] = 0)
           /\ target.kind = "Targeted"
              => /\ FlagBit(codec.bytes, 13) = 0
                 /\ SubSeq(codec.bytes, 9, 14) = target.mac
                 /\ codec.bytes[15] = 0
                 /\ codec.bytes[16] = 0

\* C19 witness: one header has been written for target All, with the flags
\* bytes 0x00 0x34, and the same options with aa:bb:cc:dd:ee:ff for target
\* give 0x00 0x14.
C19_Witness ==
    /\ codec.kind = "packet"
    /\ codec.stage = "encoded"
    /\ codec.input.options.target = TargetAll
    /\ SubSeq(codec.bytes, 3, 4) = << 0, 52 >>
    /\ SubSeq(HeaderEncode([size |-> 36, source |-> U32(0, 1),
                            target |-> Targeted(BulbMac),
                            response_required |-> FALSE,
                            acknowledgement_required |-> FALSE,
                            sequence |-> 0,
                            message_type |-> NamedType("GetService")]), 3, 4)
       = << 0, 20 >>

\* C20: Header::decode fails exactly when the low 12 bits of the
\* protocol-flags word are not 1024, bit 12 is clear or bits 14-15 are not
\* zero, and the error it gives is one of InvalidProtocol(low 12 bits),
\* NotAddressable and InvalidOrigin(bits 14-15) whose condition holds;
\* otherwise it succeeds with target All if bit 13 is set, whatever the target
\* bytes, and Targeted(first 6 target bytes) if not.
C20_HeaderDecode ==
    (codec.kind = "packet" /\ codec.stage \in {"decoded", "decoded_tampered"})
    => LET word == codec.bytes[3] + 256 * codec.bytes[4]
           protocol == word % 4096
           origin == word \div 16384
           addressable == FlagBit(codec.bytes, 12) = 1
           out == codec.output
       IN  /\ out.ok <=> (protocol = 1024 /\ addressable /\ origin = 0)
           /\ protocol # 1024 => (out.error = "InvalidProtocol" /\ out.n = protocol)
           /\ out.error = "InvalidProtocol" => protocol # 1024
           /\ out.error = "NotAddressable" => ~addressable
           /\ out.error = "InvalidOrigin" => (origin # 0 /\ out.n = origin)
           /\ (protocol = 1024 /\ addressable /\ origin # 0)
              => out.error = "InvalidOrigin"
           /\ (protocol = 1024 /\ ~addressable /\ origin = 0)
              => out.error = "NotAddressable"
           /\ ~out.ok => out.error \in {"InvalidProtocol", "NotAddressable", "InvalidOrigin"}
           /\ out.ok
              => out.value.header.target =
                    IF FlagBit(codec.bytes, 13) = 1 THEN [kind |-> "All", mac |-> << >>]
                    ELSE [kind |-> "Targeted", mac |-> SubSeq(codec.bytes, 9, 14)]

\* C20 witness: a header with the tagged bit set and aa:bb:cc:dd:ee:ff in its
\* target field has been decoded to target All.
C20_Witness ==
    /\ codec.kind = "packet"
    /\ codec.stage = "decoded_tampered"
    /\ codec.output.ok
    /\ SubSeq(codec.bytes, 9, 14) = BulbMac
    /\ codec.output.value.header.target = TargetAll

\* The size a buffer declares: its first two bytes as a little-endian u16.
Declared(bytes) == bytes[1] + 256 * bytes[2]

\* C21: every call of Codec::decode on a buffer of at least 36 bytes whose
\* declared size exceeds 4096 fails with Network(InvalidData) and leaves the
\* buffer as it was; a declared size of exactly 4096 is not refused, and no
\* smaller one is.
C21_OversizeRejected ==
    codec.kind = "stream"
    => \A i \in DOMAIN codec.output :
          LET call == codec.output[i]
          IN  Len(call.src) >= 36
              => /\ Declared(call.src) > 4096
                    => (call.ret = "Err(Network(InvalidData))" /\ call.rest = call.src)
                 /\ Declared(call.src) <= 4096
                    => call.ret # "Err(Network(InvalidData))"

\* C21 witness: a buffer of more than 4097 bytes declaring 4097 has been
\* refused, and the same bytes declaring 4096 make a frame of 4096 bytes.
C21_Witness ==
    /\ codec.kind = "stream"
    /\ codec.stage = "stopped"
    /\ codec.input.declared = 4097
    /\ Len(codec.input.buffer) > 4097
    /\ codec.output[1].ret = "Err(Network(InvalidData))"
    /\ LET accepted == CodecDecode(U16LE(4096) \o SubSeq(codec.input.buffer, 3,
                                                         Len(codec.input.buffer)))
       IN  accepted.ret = "Some" /\ Len(accepted.src) = Len(codec.input.buffer) - 4096

\* C22: Codec::decode with fewer than 36 bytes buffered, or fewer than the
\* declared size, returns Ok(None) and leaves the buffer as it was; with the
\* declared size (<= 4096) buffered it returns the packet parsed from the
\* first `size` bytes and leaves the bytes after them.  Each call starts on
\* what the call before left, so a buffer of complete frames yields their
\* packets one per call, in order, and ends empty.
C22_Framing ==
    codec.kind = "stream"
    => /\ \A i \in DOMAIN codec.output :
             LET call == codec.output[i]
                 n == Len(call.src)
             IN  /\ call.src = IF i = 1 THEN codec.input.buffer
                               ELSE codec.output[i - 1].rest
                 /\ (n < 36 \/ (Declared(call.src) <= 4096 /\ n < Declared(call.src)))
                    => (call.ret = "None" /\ call.rest = call.src)
                 /\ (n >= 36 /\ Declared(call.src) <= 4096 /\ n >= Declared(call.src))
                    => /\ call.ret = "Some"
                       /\ call.rest = SubSeq(call.src, Declared(call.src) + 1, n)
                       /\ call.item.value.header.size = Declared(call.src)
       /\ (codec.stage = "stopped" /\ codec.input.packets # << >>)
          => LET packets == codec.input.packets
                 whole == Cardinality({k \in DOMAIN packets :
                                          Len(Frames(SubSeq(packets, 1, k)))
                                             <= Len(codec.input.buffer)})
             IN  /\ Len(codec.output) = whole + 1
                 /\ \A i \in 1..whole :
                       /\ codec.output[i].ret = "Some"
                       /\ codec.output[i].item.value.message = packets[i].message
                       /\ HeaderMatches(codec.output[i].item.value.header, packets[i])
                 /\ codec.output[whole + 1].ret = "None"
                 /\ codec.input.cut = 0 => codec.bytes = << >>
                 /\ codec.input.cut # 0
                    => codec.bytes = SubSeq(codec.input.buffer,
                                            Len(codec.input.buffer) - Len(codec.bytes) + 1,
                                            Len(codec.input.buffer))

\* C22 witness: of three different frames the last lacks its last byte; two
\* packets have been yielded and the third call asked for more data, the 67
\* bytes of the StateLabel frame still buffered.
C22_Witness ==
    /\ codec.kind = "stream"
    /\ codec.stage = "stopped"
    /\ codec.input.cut = 1
    /\ Len(codec.output) = 3
    /\ codec.output[1].item.value.message = Plain("GetService")
    /\ codec.output[2].item.value.message = WireStateService(ServiceUdp, U32(0, DefaultPort))
    /\ codec.output[3].ret = "None"
    /\ Len(codec.bytes) = 67
    /\ Len(codec.input.buffer) = 36 + 41 + 67

\* C23: Hsbk::decode of the 8 bytes Hsbk::encode wrote gives the same Hsbk
\* back, for every hue, saturation and brightness and every temperature in
\* 2500..9000; and of 8 bytes whose temperature field (bytes 6-7, little
\* endian) is below 2500 or above 9000 it gives a protocol error and no Hsbk.
C23_HsbkRoundTrip ==
    codec.kind = "hsbk"
    => /\ codec.stage \in {"encoded", "decoded"} => Len(codec.bytes) = 8
       /\ codec.stage = "decoded"
          => /\ codec.output.ok
             /\ codec.output.value = codec.input
             /\ codec.output.rest = << >>
       /\ codec.stage = "decoded_tampered"
          => LET temperature == codec.bytes[7] + 256 * codec.bytes[8]
             IN  /\ (temperature < 2500 \/ temperature > 9000)
                    => /\ ~codec.output.ok
                       /\ codec.output.value = << >>
                       /\ codec.output.error = "InvalidPayload"
                 /\ (temperature >= 2500 /\ temperature <= 9000)
                    => /\ codec.output.ok
                       /\ codec.output.value.temperature = temperature
                       /\ codec.output.value.hue = codec.input.hue

\* C23 witness: 8 bytes with the temperature 9001 have been refused, and the
\* colour they were made from, at 9000 K, comes back from its own bytes.
C23_Witness ==
    /\ codec.kind = "hsbk"
    /\ codec.stage = "decoded_tampered"
    /\ codec.input = Hsbk(65535, 65535, 65535, 9000)
    /\ SubSeq(codec.bytes, 7, 8) = << 41, 35 >>
    /\ ~codec.output.ok
    /\ HsbkDecode(HsbkEncode(codec.input)) = Done(codec.input, << >>)

\* What subscription `sub` has received is in the order of the log, and
\* counts with what it missed for all the log from its start to its position.
InOrder(sub, log) ==
    /\ Len(sub.got) + sub.missed = sub.next - sub.since
    /\ \A i \in DOMAIN sub.got :
          \E k \in sub.since..(sub.next - 1) :
             /\ log[k] = sub.got[i]
             /\ i > 1 => \E j \in sub.since..(k - 1) : log[j] = sub.got[i - 1]

C25_SharedEngine ==
    [][ /\ called' # called
           => /\ client_alive \/ Clones # {}
              /\ Len(requests') = Len(requests) + 1
              /\ SubSeq(requests', 1, Len(requests)) = requests
              /\ requests'[Len(requests')].id \in called' \ called
        /\ \A c \in called' :
              Cardinality({i \in DOMAIN Line' : Line'[i] = c}) = 1
        /\ (pc' = "parked" /\ last_outgoing' = "queue_empty" /\ requests' = << >>)
           => \A c \in called' : Cardinality({i \in DOMAIN sent' : sent'[i].id = c}) = 1
        /\ (client_alive' \/ Clones' # {})
           => (last_outgoing' # "queue_closed" /\ outcome' = "Pending" /\ pc' # "done")
        /\ \A c \in Clones' :
              /\ c \notin DOMAIN subscriptions
                 => /\ subscriptions'[c].since = Len(discovery) + 1
                    /\ subscriptions'[c].got = << >>
                    /\ \A d \in DOMAIN subscriptions : subscriptions'[d] = subscriptions[d]
                    /\ UNCHANGED << requests, discovery, sequence_number, pending_responses >>
              /\ subscriptions'[c].missed = 0
              /\ subscriptions'[c].got
                    = SubSeq(discovery', subscriptions'[c].since, subscriptions'[c].next - 1)
      ]_vars

\* C25 witness: the Client itself has been dropped and a clone is alive; the
\* requests of get_label and send_discovery have each been sent once and the
\* engine waits for more; the clone, made after the first discovery event,
\* has received the second and not the first.
C25_Witness ==
    /\ ~client_alive
    /\ pc = "parked"
    /\ last_outgoing = "queue_empty"
    /\ Len(sent) = 2
    /\ SentIds = {Burst + 1, DiscoveryCaller}
    /\ Len(discovery) = 2
    /\ \E c \in Clones :
          /\ subscriptions[c].since = 2
          /\ subscriptions[c].got = << discovery[2] >>

\* C26 (as claimed): a poll_outgoing that finds the socket writable and all
\* 256 sequence numbers in use sends no response-expecting request and, with
\* a request in the deferred slot, takes nothing from the queue; in every
\* other state it keeps pulling: it leaves a request unsent only if the table
\* has become full.
C26_Backpressure ==
    [][ WritableOutgoingStep
        => /\ Full
              => /\ \A i \in (Len(sent) + 1)..Len(sent') :
                       ~sent'[i].response_required /\ ~sent'[i].acknowledgement_required
                 /\ pending_request # << >>
                    => (requests' = requests /\ sent' = sent
                        /\ pending_request' = pending_request)
           /\ (pending_request' # << >> \/ requests' # << >>) => Full'
      ]_vars

\* The value of the sequence counter when the k-th packet of this step was
\* given its sequence number: what the packet before it left.
CounterBefore(k) ==
    IF k = Len(sent) + 1 THEN sequence_number
    ELSE (sent'[k - 1].sequence + 1) % 256

\* The sequence numbers with an entry when the k-th packet of this step was
\* given its own: those of the table and of the packets sent before it in
\* this step that expect a response.
TakenBefore(k) ==
    DOMAIN pending_responses
    \cup {sent'[j].sequence : j \in {i \in (Len(sent) + 1)..(k - 1) :
                                       sent'[i].response_required
                                       \/ sent'[i].acknowledgement_required}}

\* C27: every response-expecting packet is sent under the first sequence
\* number at or after the counter that has no entry, the entry made under
\* that number is its request's, and the counter is left at that number plus
\* one modulo 256.
C27_ResponseSequence ==
    [][ /\ \A k \in (Len(sent) + 1)..Len(sent') :
              (sent'[k].response_required \/ sent'[k].acknowledgement_required)
              => LET seq == sent'[k].sequence
                 IN  /\ seq >= CounterBefore(k)
                     /\ seq \notin TakenBefore(k)
                     /\ \A before \in CounterBefore(k)..(seq - 1) : before \in TakenBefore(k)
                     /\ seq \in DOMAIN pending_responses'
                     /\ pending_responses'[seq].id = sent'[k].id
        /\ Len(sent') > Len(sent)
           => sequence_number' = (sent'[Len(sent')].sequence + 1) % 256
        /\ Len(sent') = Len(sent) => sequence_number' = sequence_number
      ]_vars

\* C27 witness: from the fresh engine 256 get_label requests have been sent
\* under 0, 1, ..., 255 in turn, the last one while 0..254 were pending, and
\* the counter has wrapped to 0.
C27_Witness ==
    /\ Len(sent) = 256
    /\ \A i \in 1..256 : sent[i].sequence = i - 1 /\ sent[i].response_required
    /\ DOMAIN pending_responses = 0..255
    /\ sequence_number = 0

\* C28: every fire-and-forget packet is sent under the value the counter
\* had, whatever the table holds, the counter is left at that value plus one
\* modulo 256, and no entry of the table is made, changed or removed for it.
C28_FireAndForgetSequence ==
    [][ /\ \A k \in (Len(sent) + 1)..Len(sent') :
              (~sent'[k].response_required /\ ~sent'[k].acknowledgement_required)
              => /\ sent'[k].sequence = CounterBefore(k)
                 /\ k = Len(sent')
                    => sequence_number' = (sent'[k].sequence + 1) % 256
                 /\ sent'[k].sequence \in DOMAIN pending_responses
                    => /\ sent'[k].sequence \in DOMAIN pending_responses'
                       /\ pending_responses'[sent'[k].sequence]
                             = pending_responses[sent'[k].sequence]
                 /\ sent'[k].sequence \in DOMAIN pending_responses'
                    => pending_responses'[sent'[k].sequence].id # sent'[k].id
        /\ (NextRequest # << >> /\ NextRequest[1].response = "None" /\ WritableOutgoingStep)
           => /\ Len(sent') > Len(sent)
              /\ sent'[Len(sent) + 1].id = NextRequest[1].id
        /\ Len(sent') > Len(sent)
           => DOMAIN pending_responses' =
                 DOMAIN pending_responses
                 \cup {sent'[k].sequence : k \in {i \in (Len(sent) + 1)..Len(sent') :
                                                    sent'[i].response_required
                                                    \/ sent'[i].acknowledgement_required}}
      ]_vars

\* C28 witness: the discovery broadcast has been sent under sequence 255
\* behind 255 get_label requests, without an entry, and the counter has
\* wrapped to 0.
C28_Witness ==
    /\ Len(sent) = 256
    /\ sent[256].id = DiscoveryCaller
    /\ sent[256].sequence = 255
    /\ 255 \notin DOMAIN pending_responses
    /\ Cardinality(DOMAIN pending_responses) >= 254
    /\ sequence_number = 0

\* C29: a packet that expects a response or an acknowledgement is handed to
\* the socket with its sink already in the pending-response table under the
\* packet's sequence number; while the Connection exists an entry is never
\* replaced, and it leaves the table only in the handle_message step on an
\* inbound packet of the engine's source with that sequence number.
C29_EntryLifetime ==
    [][ /\ \A k \in (Len(sent) + 1)..Len(sent') :
              (sent'[k].response_required \/ sent'[k].acknowledgement_required)
              => /\ sent'[k].sequence \in DOMAIN pending_responses'
                 /\ pending_responses'[sent'[k].sequence]
                       = [kind |-> IF sent'[k].response_required
                                   THEN "Reply" ELSE "Acknowledgement",
                          id |-> sent'[k].id]
                 /\ sent'[k].sequence \notin DOMAIN pending_responses
        /\ ~dropped'
           => \A seq \in DOMAIN pending_responses :
                 IF seq \in DOMAIN pending_responses'
                 THEN pending_responses'[seq] = pending_responses[seq]
                 ELSE /\ HandleStep
                      /\ Head(inbox).source = Source
                      /\ Head(inbox).sequence = seq
      ]_vars

\* C29 witness: the engine is about to handle a packet of its own source
\* whose sequence number is that of a request it has sent, and the sink of
\* that request is in the table under that number.
C29_Witness ==
    /\ pc = "running"
    /\ inbox # << >>
    /\ poll_incoming(Head(inbox)) = "Ok"
    /\ Head(inbox).source = Source
    /\ Head(inbox).sequence \in DOMAIN pending_responses
    /\ \E k \in DOMAIN sent :
          /\ sent[k].sequence = Head(inbox).sequence
          /\ sent[k].id = pending_responses[Head(inbox).sequence].id
          /\ sent[k].id \in Waiting

\* C30: handle_message on a packet that matches the Reply entry of a caller
\* who has dropped the receiving end removes that entry and nothing else,
\* gives the message to nobody (no result changes, nothing is published),
\* leaves the sequence counter as it is and the engine running; a packet of
\* the engine's source whose sequence number has no entry matches nothing.
C30_Cancellation ==
    [][ /\ ( /\ HandleStep
             /\ Head(inbox).source = Source
             /\ Head(inbox).sequence \in DOMAIN pending_responses
             /\ pending_responses[Head(inbox).sequence].kind = "Reply"
             /\ pending_responses[Head(inbox).sequence].id \in DOMAIN results
             /\ results[pending_responses[Head(inbox).sequence].id].state = "cancelled" )
           => /\ DOMAIN pending_responses' = DOMAIN pending_responses \ {Head(inbox).sequence}
              /\ \A seq \in DOMAIN pending_responses' :
                    pending_responses'[seq] = pending_responses[seq]
              /\ UNCHANGED << results, discovery, sequence_number, pending_request,
                              requests, sent, outcome, pc >>
              /\ outcome = "Pending"
        /\ ( /\ HandleStep
             /\ Head(inbox).source = Source
             /\ Head(inbox).sequence \notin DOMAIN pending_responses )
           => /\ UNCHANGED << pending_responses, results, sequence_number >>
              /\ last_incoming' = << [item |-> Head(inbox), matched |-> FALSE] >>
      ]_vars

\* C30 witness: a caller of get_label cancelled, the reply to its request
\* then took its entry out of the table, and a second packet with the same
\* sequence number has been handled as unmatched, with the engine running.
C30_Witness ==
    \E c \in DOMAIN results :
        /\ results[c].state = "cancelled"
        /\ \E k \in DOMAIN sent :
              /\ sent[k].id = c
              /\ sent[k].sequence \notin DOMAIN pending_responses
              /\ last_incoming # << >>
              /\ last_incoming[1].item.fault = "none"
              /\ last_incoming[1].item.source = Source
              /\ last_incoming[1].item.sequence = sent[k].sequence
              /\ ~last_incoming[1].matched
              /\ narrived = 2
        /\ outcome = "Pending"
        /\ ~dropped

\* C31 (as claimed): a call of Transport::send_with_response returns
\* SequenceExhausted exactly when all 256 sequence numbers have an entry in
\* the pending table, and then it sends no packet and replaces no entry.
C31_SequenceExhausted ==
    [][ (transport'.calls = transport.calls + 1 /\ transport'.op = "send_with_response")
        => /\ transport'.ret = "SequenceExhausted"
              <=> DOMAIN transport.pending = 0..U8_MAX
           /\ transport'.ret = "SequenceExhausted"
              => /\ transport'.sent = transport.sent
                 /\ transport'.pending = transport.pending
      ]_vars

\* The part of C31 the Transport keeps: a call made with all 256 numbers in
\* use returns SequenceExhausted, and a call that returns it sends no packet
\* and changes no entry.
ExhaustedWhenFull ==
    [][ (transport'.calls = transport.calls + 1 /\ transport'.op = "send_with_response")
        => /\ DOMAIN transport.pending = 0..U8_MAX => transport'.ret = "SequenceExhausted"
           /\ transport'.ret = "SequenceExhausted"
              => /\ transport'.sent = transport.sent
                 /\ transport'.pending = transport.pending
      ]_vars

\* This step sends no fire-and-forget packet under a sequence number that had
\* an entry in the pending-response table when the packet was sent.
ForgottenAvoidPending ==
    \A k \in (Len(sent) + 1)..Len(sent') :
        (~sent'[k].response_required /\ ~sent'[k].acknowledgement_required)
        => sent'[k].sequence \notin TakenBefore(k)

\* If this step handles a StateService for Service::Udp that answers a
\* GetService the engine has broadcast (same source, same sequence number), it
\* publishes the device and gives the message to no caller.
AnswerPublished ==
    ( /\ HandleStep
      /\ Head(inbox).source = Source
      /\ Head(inbox).message.type = "StateService"
      /\ Head(inbox).message.service = "Udp"
      /\ \E k \in DOMAIN sent :
            /\ sent[k].message = GetService
            /\ ~sent[k].response_required /\ ~sent[k].acknowledgement_required
            /\ sent[k].sequence = Head(inbox).sequence )
    => /\ discovery' = Append(discovery,
                              [ip |-> Head(inbox).addr.ip,
                               port |-> Head(inbox).message.port % 65536,
                               target |-> Head(inbox).target])
       /\ results' = results
       /\ pending_responses' = pending_responses

\* C32 (as claimed): a fire-and-forget packet is never sent under a sequence
\* number that has an entry in the pending-response table, and a StateService
\* answering the discovery broadcast is published as a discovery event and
\* never delivered to the Reply sink of another request.
C32_NoCrossTalk == [][ForgottenAvoidPending /\ AnswerPublished]_vars

\* C33: an entry of the pending-response table stays as it is in every step
\* except the handle_message step on a packet with the engine's source and
\* the entry's sequence number and the drop of the Connection; a step in
\* which a caller drops its receiver leaves the whole table unchanged.
C33_SlotLifetime ==
    [][ /\ \A seq \in DOMAIN pending_responses :
              \/ /\ seq \in DOMAIN pending_responses'
                 /\ pending_responses'[seq] = pending_responses[seq]
              \/ /\ HandleStep
                 /\ Head(inbox).source = Source
                 /\ Head(inbox).sequence = seq
              \/ ~dropped /\ dropped'
        /\ (\E c \in DOMAIN results' \ DOMAIN results : results'[c].state = "cancelled")
           => pending_responses' = pending_responses
      ]_vars

\* C33 witness: a caller of get_label gave up, the engine has since handled
\* two datagrams and gone through poll_outgoing, the request was never
\* answered and its sink still occupies its sequence number.
C33_Witness ==
    \E seq \in DOMAIN pending_responses :
        /\ pending_responses[seq].id \in DOMAIN results
        /\ results[pending_responses[seq].id].state = "cancelled"
        /\ narrived = 2
        /\ inbox = << >>
        /\ last_incoming # << >>
        /\ ~last_incoming[1].matched
        /\ pc = "parked"
        /\ ~dropped

\* C34: while a request sits in the deferred slot and no inbound packet is
\* dispatched to a sink (here none ever is: every datagram is another
\* client's), no step sends a packet, not even the fire-and-forget request
\* queued behind it, and the deferred request, the pending-response table and
\* the sequence counter stay as they are; the queue only grows.
C34_HeadOfLine ==
    [][ pending_request # << >>
        => /\ UNCHANGED << pending_request, pending_responses, sequence_number, sent >>
           /\ IsPrefix(requests, requests')
      ]_vars

\* C34 witness: a get_label request is deferred with the table full, the
\* discovery broadcast is queued behind it, and the engine, woken by another
\* client's datagram after it deferred, is about to run poll_outgoing again.
C34_Witness ==
    /\ pending_request # << >>
    /\ pending_request[1].response = "Reply"
    /\ requests # << >>
    /\ Head(requests).response = "None"
    /\ Full
    /\ last_outgoing = "deferred"
    /\ last_incoming # << >>
    /\ pc = "running"
    /\ inbox = << >>

\* C35: the duration field of an encoded SetColor, the four bytes after the
\* header, the reserved byte 0 and the 8 HSBK bytes, is the little-endian u32
\* of the duration's whole milliseconds modulo 2^32; decoding gives exactly
\* that many milliseconds, so the message comes back as it was exactly when
\* its duration is a whole number of milliseconds below 2^32; 5000 ms is
\* encoded as 136, 19, 0, 0.
C35_SetColorDuration ==
    ( /\ codec.kind = "packet"
      /\ codec.input.message.type = "SetColor"
      /\ codec.stage \in {"encoded", "decoded"} )
    => LET duration == codec.input.message.duration
           low == duration.millis.lo
           high == duration.millis.hi
       IN  /\ Len(codec.bytes) = HEADER_SIZE + 13
           /\ codec.bytes[HEADER_SIZE + 1] = 0
           /\ SubSeq(codec.bytes, HEADER_SIZE + 2, HEADER_SIZE + 9)
                 = HsbkEncode(codec.input.message.color)
           /\ SubSeq(codec.bytes, HEADER_SIZE + 10, HEADER_SIZE + 13)
                 = << low % 256, low \div 256, high % 256, high \div 256 >>
           /\ duration = Duration(0, U32(0, 5000), 0)
              => SubSeq(codec.bytes, HEADER_SIZE + 10, HEADER_SIZE + 13) = << 136, 19, 0, 0 >>
           /\ codec.stage = "decoded"
              => /\ codec.output.ok
                 /\ codec.output.value.message.duration = Duration(0, duration.millis, 0)
                 /\ codec.output.value.message.color = codec.input.message.color
                 /\ codec.output.value.message = codec.input.message
                    <=> (duration.above = 0 /\ duration.nanos = 0)

\* C35 witness: a SetColor whose duration is 2^32 + 5000 milliseconds and a
\* part of a millisecond has been encoded and decoded, and came back with a
\* duration of 5000 milliseconds.
C35_Witness ==
    /\ codec.kind = "packet"
    /\ codec.stage = "decoded"
    /\ codec.input.message.type = "SetColor"
    /\ codec.input.message.duration = Duration(1, U32(0, 5000), 999999)
    /\ codec.output.ok
    /\ codec.output.value.message.duration = Duration(0, U32(0, 5000), 0)

\* C36: the port of the DeviceAddress published for a StateService is the
\* payload's u32 port modulo 65536, which is the advertised port exactly when
\* that is below 65536; whatever the port, the packet is handled like any
\* other StateService: the address is published and the engine does not fail.
C36_DiscoveryPort ==
    [][ ( /\ HandleStep
          /\ Head(inbox).source = Source
          /\ Head(inbox).sequence \notin DOMAIN pending_responses
          /\ Head(inbox).message.type = "StateService"
          /\ Head(inbox).message.service = "Udp" )
        => LET advertised == Head(inbox).message.port
               published == discovery'[Len(discovery')]
           IN  /\ Len(discovery') = Len(discovery) + 1
               /\ published.port = advertised - 65536 * (advertised \div 65536)
               /\ published.port \in 0..65535
               /\ published.port = advertised <=> advertised < 65536
               /\ published.ip = Head(inbox).addr.ip
               /\ outcome' = "Pending"
               /\ pc' = "running"
      ]_vars

\* C36 witness: a StateService advertising port 65536 + 56700 has been
\* handled and the address published for it has port 56700.
C36_Witness ==
    /\ last_incoming # << >>
    /\ last_incoming[1].item.message.type = "StateService"
    /\ last_incoming[1].item.message.port = 65536 + 56700
    /\ ~last_incoming[1].matched
    /\ discovery # << >>
    /\ discovery[Len(discovery)].port = 56700
    /\ outcome = "Pending"

C38_OwnReplies ==
    DiscoveryCaller \in DOMAIN subscriptions
    => LET sub == subscriptions[DiscoveryCaller]
       IN  /\ \A i \in DOMAIN discovery : i >= sub.since
           /\ sub.next > Len(discovery) => sub.got = discovery

====
